---- MODULE Spec2Model ----
(***************************************************************************)
(* The Smart Context Engine of smart_context_engine.ts: TF-IDF and        *)
(* embedding scoring with an on-disk embedding cache, heuristic and        *)
(* keyword adjustments, and the budgeted selection of files.               *)
(*                                                                         *)
(* Text is modelled character by character: a string is a sequence of     *)
(* one-character strings, so that includes(), split(), basename() and the  *)
(* cache key (the hash of path followed by content) behave as in the code. *)
(* Scores are integers in thousandths (0.15 is 150).  Time is counted in   *)
(* hours (one day is 24).                                                  *)
(***************************************************************************)
EXTENDS Integers, Sequences, FiniteSets, TLC

VARIABLES
  calls,      \* the selectFiles calls in progress, one record each (see NewCall)
  cache,      \* the embeddings-cache directory: cache key -> file
  provider,   \* the engine's embedding provider, "none" when none is configured
  embedFails, \* the texts on which the embedding service fails
  stat,       \* the workspace: path -> mtime, or NoFile where fs.stat fails
  now,        \* Date.now(), in hours
  writes,     \* history: the cache writes that completed
  ops,        \* the last two direct operations on the cache (see SetEntry, GetEntry)
  fsFails,    \* the operations on cache files that can fail: of FsOperations
  cleanup,    \* the cleanup the constructor started (see CleanupReaddir)
  settings,   \* the stored user settings the deep links write to
  deepLink    \* the deep link delivered to the app, and what the app showed for it

vars ==
  <<calls, cache, provider, embedFails, stat, now, writes, ops, fsFails, cleanup,
    settings, deepLink>>

-----------------------------------------------------------------------------
(* Strings *)

LowerLetters ==
  {"a", "b", "c", "d", "e", "f", "g", "h", "i", "j", "k", "l", "m", "n", "o", "p", "q", "r", "s", "t", "u", "v", "w", "x", "y", "z"}

Digits ==
  {"0", "1", "2", "3", "4", "5", "6", "7", "8", "9"}

UpperToLower ==
  ("A" :> "a") @@ ("B" :> "b") @@ ("C" :> "c") @@ ("D" :> "d") @@ ("E" :> "e") @@ ("F" :> "f")
    @@ ("G" :> "g") @@ ("H" :> "h") @@ ("I" :> "i") @@ ("J" :> "j") @@ ("K" :> "k") @@ ("L" :> "l")
    @@ ("M" :> "m") @@ ("N" :> "n") @@ ("O" :> "o") @@ ("P" :> "p") @@ ("Q" :> "q") @@ ("R" :> "r")
    @@ ("S" :> "s") @@ ("T" :> "t") @@ ("U" :> "u") @@ ("V" :> "v") @@ ("W" :> "w") @@ ("X" :> "x")
    @@ ("Y" :> "y") @@ ("Z" :> "z")

\* \w of a JavaScript regular expression
IsWordChar(ch) ==
  ch \in LowerLetters \/ ch \in DOMAIN UpperToLower \/ ch \in Digits \/ ch = "_"

\* \s of a JavaScript regular expression (the white space the inputs use)
IsSpace(ch) ==
  ch \in {" ", "\n", "\t"}

ToLowerCase(s) ==
  [i \in 1..Len(s) |-> IF s[i] \in DOMAIN UpperToLower THEN UpperToLower[s[i]] ELSE s[i]]

\* s.replace(/[^\w\s]/g, " ")
ReplaceNonWord(s) ==
  [i \in 1..Len(s) |-> IF IsWordChar(s[i]) \/ IsSpace(s[i]) THEN s[i] ELSE " "]

\* s.replace(/[\W_]+/g, " "): a run of non-word characters or underscores
\* (white space included) becomes one space
RECURSIVE ReplaceNonWordRuns(_)
ReplaceNonWordRuns(s) ==
  IF s = <<>> THEN <<>>
  ELSE IF IsWordChar(Head(s)) /\ Head(s) # "_"
       THEN <<Head(s)>> \o ReplaceNonWordRuns(Tail(s))
       ELSE LET rest == ReplaceNonWordRuns(Tail(s))
            IN  IF Tail(s) # <<>> /\ ~(IsWordChar(s[2]) /\ s[2] # "_")
                THEN rest
                ELSE <<" ">> \o rest

\* s.split(/\s+/) without the empty pieces a leading or trailing run of white
\* space yields: every caller drops pieces shorter than three characters
RECURSIVE SplitAcc(_, _, _)
SplitAcc(s, cur, acc) ==
  IF s = <<>> THEN (IF cur = <<>> THEN acc ELSE Append(acc, cur))
  ELSE IF IsSpace(Head(s))
       THEN SplitAcc(Tail(s), <<>>, IF cur = <<>> THEN acc ELSE Append(acc, cur))
       ELSE SplitAcc(Tail(s), Append(cur, Head(s)), acc)

SplitWhitespace(s) ==
  SplitAcc(s, <<>>, <<>>)

\* hay.includes(needle)
Includes(hay, needle) ==
  \E i \in 0..(Len(hay) - Len(needle)) : SubSeq(hay, i + 1, i + Len(needle)) = needle

\* array.includes(x), array.some(p)
InSeq(x, seq) ==
  \E i \in 1..Len(seq) : seq[i] = x

LastIndexOf(s, ch) ==
  LET at == {i \in 1..Len(s) : s[i] = ch}
  IN  IF at = {} THEN 0 ELSE CHOOSE i \in at : \A j \in at : j <= i

\* path.basename, path.dirname, path.extname (POSIX, paths without a trailing slash)
Basename(p) ==
  SubSeq(p, LastIndexOf(p, "/") + 1, Len(p))

Dirname(p) ==
  LET k == LastIndexOf(p, "/")
  IN  IF k = 0 THEN <<".">> ELSE IF k = 1 THEN <<"/">> ELSE SubSeq(p, 1, k - 1)

Extname(p) ==
  LET b == Basename(p)
      k == LastIndexOf(b, ".")
  IN  IF k <= 1 THEN <<>> ELSE SubSeq(b, k, Len(b))

\* a.join(" ")
RECURSIVE JoinSpace(_)
JoinSpace(a) ==
  IF a = <<>> THEN <<>>
  ELSE IF Len(a) = 1 THEN a[1]
  ELSE a[1] \o <<" ">> \o JoinSpace(Tail(a))

RECURSIVE SumSeq(_)
SumSeq(s) ==
  IF s = <<>> THEN 0 ELSE Head(s) + SumSeq(Tail(s))

Max(a, b) == IF a >= b THEN a ELSE b

Min(a, b) == IF a <= b THEN a ELSE b

\* array.sort((a, b) => b.score - a.score): stable, descending by score
RECURSIVE InsertByScore(_, _)
InsertByScore(sorted, c) ==
  IF sorted = <<>> THEN <<c>>
  ELSE IF Head(sorted).score >= c.score
       THEN <<Head(sorted)>> \o InsertByScore(Tail(sorted), c)
       ELSE <<c>> \o sorted

RECURSIVE SortByScoreDesc(_)
SortByScoreDesc(cs) ==
  IF cs = <<>> THEN <<>>
  ELSE InsertByScore(SortByScoreDesc(SubSeq(cs, 1, Len(cs) - 1)), cs[Len(cs)])

\* numbers.sort((a, b) => a - b)
RECURSIVE InsertAscending(_, _)
InsertAscending(sorted, x) ==
  IF sorted = <<>> THEN <<x>>
  ELSE IF Head(sorted) <= x
       THEN <<Head(sorted)>> \o InsertAscending(Tail(sorted), x)
       ELSE <<x>> \o sorted

RECURSIVE SortAscending(_)
SortAscending(xs) ==
  IF xs = <<>> THEN <<>>
  ELSE InsertAscending(SortAscending(Tail(xs)), Head(xs))

-----------------------------------------------------------------------------
(* TFIDFScorer *)

TfidfStopWords ==
  { <<"t","h","e">>, <<"a">>, <<"a","n">>, <<"a","n","d">>, <<"o","r">>, <<"b","u","t">>,
    <<"i","n">>, <<"o","n">>, <<"a","t">>, <<"t","o">>, <<"f","o","r">>, <<"o","f">>,
    <<"w","i","t","h">>, <<"b","y">>, <<"f","r","o","m">>, <<"u","p">>, <<"a","b","o","u","t">>, <<"i","n","t","o">>,
    <<"t","h","r","o","u","g","h">>, <<"d","u","r","i","n","g">>, <<"b","e","f","o","r","e">>, <<"a","f","t","e","r">>, <<"a","b","o","v","e">>, <<"b","e","l","o","w">>,
    <<"b","e","t","w","e","e","n">>, <<"a","m","o","n","g">>, <<"t","h","i","s">>, <<"t","h","a","t">>, <<"t","h","e","s","e">>, <<"t","h","o","s","e">>,
    <<"i">>, <<"m","e">>, <<"m","y">>, <<"m","y","s","e","l","f">>, <<"w","e">>, <<"o","u","r">>,
    <<"o","u","r","s">>, <<"o","u","r","s","e","l","v","e","s">>, <<"y","o","u">>, <<"y","o","u","r">>, <<"y","o","u","r","s">>, <<"y","o","u","r","s","e","l","f">>,
    <<"y","o","u","r","s","e","l","v","e","s">>, <<"h","e">>, <<"h","i","m">>, <<"h","i","s">>, <<"h","i","m","s","e","l","f">>, <<"s","h","e">>,
    <<"h","e","r">>, <<"h","e","r","s">>, <<"h","e","r","s","e","l","f">>, <<"i","t">>, <<"i","t","s">>, <<"i","t","s","e","l","f">>,
    <<"t","h","e","y">>, <<"t","h","e","m">>, <<"t","h","e","i","r">>, <<"t","h","e","i","r","s">>, <<"t","h","e","m","s","e","l","v","e","s">>, <<"w","h","a","t">>,
    <<"w","h","i","c","h">>, <<"w","h","o">>, <<"w","h","o","m">>, <<"a","m">>, <<"i","s">>, <<"a","r","e">>,
    <<"w","a","s">>, <<"w","e","r","e">>, <<"b","e">>, <<"b","e","e","n">>, <<"b","e","i","n","g">>, <<"h","a","v","e">>,
    <<"h","a","s">>, <<"h","a","d">>, <<"h","a","v","i","n","g">>, <<"d","o">>, <<"d","o","e","s">>, <<"d","i","d">>,
    <<"d","o","i","n","g">>, <<"w","i","l","l">>, <<"w","o","u","l","d">>, <<"s","h","o","u","l","d">>, <<"c","o","u","l","d">>, <<"c","a","n">>,
    <<"m","a","y">>, <<"m","i","g","h","t">>, <<"m","u","s","t">>, <<"s","h","a","l","l">> }

\* TFIDFScorer.tokenize
TfidfTokenOk(token) ==
  Len(token) > 2 /\ Len(token) < 50 /\ token \notin TfidfStopWords

Tokenize(text) ==
  SelectSeq(SplitWhitespace(ReplaceNonWord(ToLowerCase(text))), TfidfTokenOk)

\* the constructor: one document per file, in order
Documents(files) ==
  [i \in 1..Len(files) |-> [path |-> files[i].path, tokens |-> Tokenize(files[i].content)]]

Vocabulary(docs) ==
  UNION {{docs[i].tokens[j] : j \in 1..Len(docs[i].tokens)} : i \in 1..Len(docs)}

\* 1000 * ln(k), rounded, for k = 1..40
LnTable ==
  << 0, 693, 1099, 1386, 1609, 1792, 1946, 2079, 2197, 2303,
     2398, 2485, 2565, 2639, 2708, 2773, 2833, 2890, 2944, 2996,
     3045, 3091, 3135, 3178, 3219, 3258, 3296, 3332, 3367, 3401,
     3434, 3466, 3497, 3526, 3555, 3584, 3611, 3638, 3664, 3689 >>

\* 1000 * Math.log(n / d)
LnMilli(n, d) ==
  LnTable[n] - LnTable[d]

\* computeIDF, and the "|| 0" of a term outside the vocabulary
Idf(docs, term) ==
  IF term \notin Vocabulary(docs) THEN 0
  ELSE LET docsWithTerm == Cardinality({i \in 1..Len(docs) : InSeq(term, docs[i].tokens)})
       IN  LnMilli(Len(docs), docsWithTerm + 1)

\* computeTF: the count of a token, to be divided by the document's length
CountOf(tokens, t) ==
  Cardinality({j \in 1..Len(tokens) : tokens[j] = t})

\* scoreDocument: the sum over the query's tokens, each occurrence counted
ScoreDocument(docs, filePath, query) ==
  LET found == {i \in 1..Len(docs) : docs[i].path = filePath}
  IN  IF found = {} THEN 0
      ELSE LET doc == docs[CHOOSE i \in found : \A j \in found : i <= j]
               queryTokens == Tokenize(query)
               term(k) == IF Len(doc.tokens) = 0 THEN 0
                          ELSE (CountOf(doc.tokens, queryTokens[k]) * Idf(docs, queryTokens[k]))
                               \div Len(doc.tokens)
           IN  SumSeq([k \in 1..Len(queryTokens) |-> term(k)])

-----------------------------------------------------------------------------
(* Score adjustments: a score delta with the reasons pushed for it *)

NoAdjustment ==
  [score |-> 0, reasons |-> <<>>]

Adjustment(cond, delta, reason) ==
  IF cond THEN [score |-> delta, reasons |-> <<reason>>] ELSE NoAdjustment

Plus(a, b) ==
  [score |-> a.score + b.score, reasons |-> a.reasons \o b.reasons]

\* candidate.score += adj.score; candidate.reasons.push(...adj.reasons)
Apply(c, adj) ==
  [c EXCEPT !.score = @ + adj.score, !.reasons = @ \o adj.reasons]

-----------------------------------------------------------------------------
(* HeuristicScorer *)

LongerThanTwo(word) ==
  Len(word) > 2

\* the query keywords of scoreByPath: no stop words, repetitions kept
PathKeywords(query) ==
  SelectSeq(SplitWhitespace(ReplaceNonWord(ToLowerCase(query))), LongerThanTwo)

RECURSIVE KeywordPathScore(_, _, _)
KeywordPathScore(keywords, fileName, dirName) ==
  IF keywords = <<>> THEN NoAdjustment
  ELSE Plus(Plus(Adjustment(Includes(fileName, Head(keywords)), 800, "filename contains"),
                 Adjustment(Includes(dirName, Head(keywords)), 400, "directory contains")),
            KeywordPathScore(Tail(keywords), fileName, dirName))

ScoreByPath(filePath, query) ==
  LET fileName == ToLowerCase(Basename(filePath))
      dirName == ToLowerCase(Dirname(filePath))
      queryLower == ToLowerCase(query)
      ext == ToLowerCase(Extname(filePath))
      fileType ==
        Plus(Plus(Adjustment(ext \in {<<".","t","s","x">>, <<".","j","s","x">>} /\ Includes(queryLower, <<"c","o","m","p","o","n","e","n","t">>),
                             600, "React component file"),
                  Adjustment(ext \in {<<".","t","s">>, <<".","j","s">>} /\ Includes(queryLower, <<"f","u","n","c","t","i","o","n">>),
                             400, "JavaScript/TypeScript file")),
             Adjustment(ext = <<".","c","s","s">> /\ Includes(queryLower, <<"s","t","y","l","e">>), 600, "CSS file"))
      config ==
        Adjustment(/\ fileName \in {<<"p","a","c","k","a","g","e",".","j","s","o","n">>, <<"t","s","c","o","n","f","i","g",".","j","s","o","n">>, <<".","e","n","v">>}
                   /\ (Includes(queryLower, <<"c","o","n","f","i","g">>) \/ Includes(queryLower, <<"s","e","t","u","p">>)),
                   700, "configuration file")
      test ==
        IF Includes(fileName, <<"t","e","s","t">>) \/ Includes(fileName, <<"s","p","e","c">>)
        THEN IF Includes(queryLower, <<"t","e","s","t">>)
             THEN [score |-> 500, reasons |-> <<"test file">>]
             ELSE [score |-> -300, reasons |-> <<"test file (deprioritized)">>]
        ELSE NoAdjustment
  IN  Plus(Plus(Plus(KeywordPathScore(PathKeywords(query), fileName, dirName), fileType),
                config),
           test)

HoursPerDay == 24

\* scoreByRecency, with Date.now() = clock
ScoreByRecency(mtime, clock) ==
  LET age == clock - mtime
  IN  IF age < HoursPerDay THEN [score |-> 500, reasons |-> <<"modified today">>]
      ELSE IF age < 7 * HoursPerDay THEN [score |-> 300, reasons |-> <<"modified this week">>]
      ELSE IF age < 30 * HoursPerDay THEN [score |-> 100, reasons |-> <<"modified this month">>]
      ELSE NoAdjustment

\* the result of fs.stat / fs.statSync on a path that does not exist
NoFile == -1

\* addHeuristicScores; fs is the file system (path -> mtime or NoFile)
AutoIncludeBoost(c) ==
  Adjustment(c.isAutoInclude, 10000, "auto-include")

AddHeuristicScores(c, query, fs, clock) ==
  LET withPath == Apply(c, ScoreByPath(c.path, query))
      withRecency == IF fs[c.path] = NoFile THEN withPath
                     ELSE Apply(withPath, ScoreByRecency(fs[c.path], clock))
  IN  Apply(withRecency, AutoIncludeBoost(withRecency))

-----------------------------------------------------------------------------
(* SmartContextEngine: query, keywords, candidates *)

IsUserMessage(m) ==
  m.role = "user"

Contents(messages) ==
  [i \in 1..Len(messages) |-> messages[i].content]

\* messages.slice(-3)
LastThree(messages) ==
  SubSeq(messages, Max(1, Len(messages) - 2), Len(messages))

\* mutant: the last three messages are taken before the user messages are kept
BuildQueryOfLastThreeMessages(promptContext) ==
  LET recentUserMessages ==
        JoinSpace(Contents(SelectSeq(LastThree(promptContext.recentMessages), IsUserMessage)))
  IN  IF recentUserMessages # <<>>
      THEN promptContext.userPrompt \o <<" ">> \o recentUserMessages
      ELSE promptContext.userPrompt

BuildQuery(promptContext) ==
  LET recentUserMessages ==
        JoinSpace(Contents(LastThree(SelectSeq(promptContext.recentMessages, IsUserMessage))))
  IN  IF recentUserMessages # <<>>
      THEN promptContext.userPrompt \o <<" ">> \o recentUserMessages
      ELSE promptContext.userPrompt

KeywordStopWords ==
  { <<"t","h","e">>, <<"a","n","d">>, <<"y","o","u">>, <<"y","o","u","r">>, <<"w","i","t","h">>, <<"t","h","a","t">>,
    <<"t","h","i","s">>, <<"f","r","o","m">>, <<"i","n","t","o">>, <<"f","o","r">>, <<"n","o","t">>, <<"b","u","t">>,
    <<"a","r","e">>, <<"w","a","s">>, <<"w","e","r","e">>, <<"h","a","v","e">>, <<"h","a","s">>, <<"h","a","d">>,
    <<"w","i","l","l">>, <<"w","o","u","l","d">>, <<"c","o","u","l","d">>, <<"s","h","o","u","l","d">>, <<"a","b","o","u","t">>, <<"p","a","g","e">>,
    <<"c","o","m","p","o","n","e","n","t">>, <<"f","i","l","e">>, <<"f","i","l","e","s">>, <<"p","l","e","a","s","e">>, <<"m","a","k","e">>, <<"a","d","d">>,
    <<"r","e","m","o","v","e">>, <<"c","h","a","n","g","e">>, <<"u","p","d","a","t","e">>, <<"t","o","g","g","l","e">>, <<"d","a","r","k">>, <<"l","i","g","h","t">>,
    <<"m","o","d","e">>, <<"n","e","w">>, <<"o","l","d">>, <<"l","i","k","e">>, <<"j","u","s","t">>, <<"n","e","e","d">>,
    <<"w","a","n","t">>, <<"c","a","n">>, <<"a","b","l","e">> }

KeywordLengthOk(t) ==
  Len(t) >= 3 /\ Len(t) <= 40

RECURSIVE KeepNew(_, _)
KeepNew(raw, out) ==
  IF raw = <<>> THEN out
  ELSE KeepNew(Tail(raw),
               IF Head(raw) \notin KeywordStopWords /\ ~InSeq(Head(raw), out)
               THEN Append(out, Head(raw)) ELSE out)

ExtractKeywords(text) ==
  LET raw == SelectSeq(SplitWhitespace(ReplaceNonWordRuns(ToLowerCase(text))), KeywordLengthOk)
      out == KeepNew(raw, <<>>)
  IN  SubSeq(out, 1, Min(15, Len(out)))

\* estimateTokens of token_utils: an estimate from the length of the text
EstimateTokens(content) ==
  (Len(content) + 3) \div 4

\* mutant: the force flag of the scanner is forgotten
IsAutoIncludeByPathOnly(file, autoIncludePaths) ==
  file.path \in autoIncludePaths

IsAutoInclude(file, autoIncludePaths) ==
  file.path \in autoIncludePaths \/ file.force

PrepareCandidates(files, autoIncludePaths) ==
  [i \in 1..Len(files) |->
     [path |-> files[i].path, content |-> files[i].content, force |-> files[i].force,
      score |-> 0, reasons |-> <<>>,
      isAutoInclude |-> IsAutoInclude(files[i], autoIncludePaths),
      tokens |-> EstimateTokens(files[i].content)]]

\* calculateTokenBudget; maxTokens = 0 when getMaxTokens reports none
CalculateTokenBudget(maxTokens) ==
  Max((IF maxTokens # 0 THEN maxTokens ELSE 32000) - 8000, 10000)

\* options.tokenBudget when the caller gives none (undefined)
NoBudget == -1

\* options.tokenBudget || calculateTokenBudget(...): 0 is falsy as undefined is
TokenBudget(optBudget, maxTokens) ==
  IF optBudget # NoBudget /\ optBudget # 0 THEN optBudget
  ELSE CalculateTokenBudget(maxTokens)

-----------------------------------------------------------------------------
(* scoreWithTFIDF *)

ScoreWithTFIDF(candidates, query, fs, clock) ==
  LET docs == Documents(candidates)
      scoreOne(c) ==
        AddHeuristicScores(
          [c EXCEPT !.score = ScoreDocument(docs, c.path, query),
                    !.reasons = Append(@, "tf-idf score")],
          query, fs, clock)
  IN  SortByScoreDesc([i \in 1..Len(candidates) |-> scoreOne(candidates[i])])

-----------------------------------------------------------------------------
(* scoreCandidates: the keyword adjustments after the base scorer *)

SomeKeyword(keywords, P(_)) ==
  \E i \in 1..Len(keywords) : P(keywords[i])

ThemePaths ==
  << <<"t","h","e","m","e">>, <<"t","o","g","g","l","e">>, <<"g","l","o","b","a","l","s",".","c","s","s">>, <<"t","a","i","l","w","i","n","d",".","c","o","n","f","i","g">>, <<"i","n","d","e","x",".","h","t","m","l">>,
     <<"a","p","p",".","c","s","s">>, <<"l","a","y","o","u","t">>, <<"T","h","e","m","e","T","o","g","g","l","e">>, <<"t","o","g","g","l","e","-","g","r","o","u","p">> >>

NegativeDirs ==
  << <<"c","h","a","r","t">>, <<"c","h","a","r","t","s">>, <<"g","r","a","p","h">>, <<"a","n","a","l","y","t","i","c","s">>, <<"t","e","s","t">>, <<"s","t","o","r","i","e","s">>, <<"s","t","o","r","y","b","o","o","k">> >>

KeywordAdjust(c, keywords) ==
  LET baseName == ToLowerCase(Basename(c.path))
      dir == ToLowerCase(Dirname(c.path))
      text == ToLowerCase(c.content)
      hasKeywordInPath ==
        SomeKeyword(keywords, LAMBDA k : Includes(baseName, k) \/ Includes(dir, k))
      hasKeywordInContent == SomeKeyword(keywords, LAMBDA k : Includes(text, k))
      wantsWatermark ==
        SomeKeyword(keywords, LAMBDA k : k \in {<<"w","a","t","e","r","m","a","r","k">>, <<"t","e","r","n","a","r","y">>, <<"m","a","d","e">>})
      watermark ==
        Adjustment(/\ wantsWatermark
                   /\ \/ Includes(baseName, <<"m","a","d","e","-","w","i","t","h","-","t","e","r","n","a","r","y">>)
                      \/ Includes(baseName, <<"w","a","t","e","r","m","a","r","k">>)
                      \/ Includes(text, <<"m","a","d","e"," ","w","i","t","h"," ","t","e","r","n","a","r","y">>),
                   2000, "bonus: watermark-related file")
      wantsThemeToggle ==
        SomeKeyword(keywords, LAMBDA k : k \in {<<"t","h","e","m","e">>, <<"t","o","g","g","l","e">>, <<"d","a","r","k">>, <<"l","i","g","h","t">>})
      theme ==
        Adjustment(/\ wantsThemeToggle
                   /\ \E i \in 1..Len(ThemePaths) :
                         \/ Includes(baseName, ToLowerCase(ThemePaths[i]))
                         \/ Includes(dir, ToLowerCase(ThemePaths[i])),
                   1500, "bonus: theme-toggle related path")
      isNegativeDir ==
        \E i \in 1..Len(NegativeDirs) :
           Includes(dir, NegativeDirs[i]) \/ Includes(baseName, NegativeDirs[i])
      mentionedNegative == SomeKeyword(keywords, LAMBDA k : InSeq(k, NegativeDirs))
      negative ==
        Adjustment(/\ isNegativeDir
                   /\ ~mentionedNegative
                   /\ ~hasKeywordInPath
                   /\ ~hasKeywordInContent,
                   -5000, "penalty: negative-dir without mention")
      hint ==
        IF ~hasKeywordInPath /\ ~hasKeywordInContent
        THEN [score |-> -500, reasons |-> <<"penalty: no keyword hint">>]
        ELSE [score |-> 500, reasons |-> <<"bonus: keyword match">>]
  IN  Apply(c, Plus(Plus(Plus(watermark, theme), negative), hint))

\* the loop over scored and the final sort
AdjustAndSort(scored, keywords) ==
  SortByScoreDesc([i \in 1..Len(scored) |-> KeywordAdjust(scored[i], keywords)])

-----------------------------------------------------------------------------
(* cosineSimilarity, in thousandths *)

\* Math.sqrt on the squared norms of the modelled embedder, which are squares
ISqrt(n) ==
  CHOOSE r \in 0..n : r * r <= n /\ (r + 1) * (r + 1) > n

Dot(a, b) ==
  SumSeq([i \in 1..Len(a) |-> a[i] * b[i]])

CosineSimilarity(a, b) ==
  IF Len(a) # Len(b) THEN 0
  ELSE LET magnitude == ISqrt(Dot(a, a)) * ISqrt(Dot(b, b))
       IN  IF magnitude = 0 THEN 0 ELSE (Dot(a, b) * 1000) \div magnitude

-----------------------------------------------------------------------------
(* EmbeddingProvider *)

\* initializeProvider leaves the provider null when no key is configured
\* mutant: the engine takes the embedding path whatever the settings
IsAvailableAlways(prov) ==
  TRUE

IsAvailable(prov) ==
  prov # "none"

\* The embedding service: a fixed vector per provider and text.  OpenAI
\* vectors and Google/Vertex vectors differ in dimension.
EmbedVector(prov, text) ==
  IF prov = "openai"
  THEN << <<3, 4>>, <<4, 3>>, <<5, 0>>, <<0, 5>> >>[(Len(text) % 4) + 1]
  ELSE << <<1, 2, 2>>, <<2, 1, 2>>, <<2, 2, 1>>, <<0, 0, 3>> >>[(Len(text) % 4) + 1]

-----------------------------------------------------------------------------
(* EmbeddingCache *)

\* the fs calls of the cache whose failure the code provides for
FsOperations ==
  {"readFile", "unlink", "writeFile"}

\* a setting that is not stored
NoValue ==
  [kind |-> "none"]

\* the settings file before any deep link has written to it
NoSettings ==
  [appAuth |-> NoValue, neon |-> NoValue, supabase |-> NoValue, ternaryPro |-> NoValue]

\* no deep link has been delivered
NoDeepLink ==
  [pc |-> "idle", url |-> <<>>, errorBoxes |-> <<>>, sent |-> <<>>, linking |-> NoValue]

\* the cleanup when it has returned without an error
CleanupDone ==
  [pc |-> "done", listed |-> <<>>, files |-> <<>>, error |-> "none"]

\* the default of maxAge: seven days
DefaultMaxAge ==
  7 * HoursPerDay

\* mutant: an entry of exactly maxAge is deleted as well
IsExpiredAtMaxAge(mtimeMs, clock, maxAge) ==
  clock - mtimeMs >= maxAge

\* now - stats.mtimeMs > maxAge
IsExpired(mtimeMs, clock, maxAge) ==
  clock - mtimeMs > maxAge

\* getCacheKey: SHA-256 over the path followed by the content (two updates
\* of one hash), taken as injective on the concatenation
GetCacheKey(filePath, content) ==
  filePath \o content

\* mutant: the vector is left out of the text
StringifyWithoutEmbedding(data) ==
  <<"{", "embedding", ":", <<>>, "hash", ":", data.hash, "mtime", ":", data.mtime, "}">>

\* JSON.stringify of an EmbeddingCacheData
Stringify(data) ==
  <<"{", "embedding", ":", data.embedding, "hash", ":", data.hash,
    "mtime", ":", data.mtime, "}">>

\* JSON.parse: a text cut short does not parse
ParseOk(text) ==
  Len(text) = 11 /\ text[1] = "{" /\ text[11] = "}"

Parse(text) ==
  [embedding |-> text[4], hash |-> text[7], mtime |-> text[10]]

\* what a concurrent reader can find while fs.writeFile is under way: the
\* file truncated, or a first part of the text
TruncatedWrites(text) ==
  {SubSeq(text, 1, k) : k \in {0, Len(text) \div 2}}

HasEntry(dir, key) ==
  key \in DOMAIN dir

\* mutant: the stale file stays where it is
UnlinkNothing(dir, key) ==
  dir

\* fs.unlink
Unlink(dir, key) ==
  [k \in DOMAIN dir \ {key} |-> dir[k]]

\* fs.writeFile, in one piece
WriteFile(dir, key, text, clock) ==
  [k \in DOMAIN dir \cup {key} |->
     IF k = key THEN [text |-> text, mtimeMs |-> clock] ELSE dir[k]]

\* mutant: get returns whatever parses, without the test on mtime
GetOutcomeIgnoringMtime(dir, key, mtime) ==
  IF ~HasEntry(dir, key) THEN [kind |-> "miss"]
  ELSE IF ~ParseOk(dir[key].text) THEN [kind |-> "miss"]
  ELSE [kind |-> "hit", embedding |-> Parse(dir[key].text).embedding]

\* the outcome of get once readFile has returned the file's text:
\* "hit" (with the vector), "stale" (the entry is to be unlinked) or "miss"
GetOutcome(dir, key, mtime) ==
  IF ~HasEntry(dir, key) THEN [kind |-> "miss"]
  ELSE IF ~ParseOk(dir[key].text) THEN [kind |-> "miss"]
  ELSE IF Parse(dir[key].text).mtime = mtime
       THEN [kind |-> "hit", embedding |-> Parse(dir[key].text).embedding]
       ELSE [kind |-> "stale"]

\* the text set writes
CacheText(filePath, content, mtime, embedding) ==
  Stringify([embedding |-> embedding, hash |-> GetCacheKey(filePath, content),
             mtime |-> mtime])

-----------------------------------------------------------------------------
(* selectWithinBudget *)

IsAuto(c) == c.isAutoInclude

IsNotAuto(c) == ~c.isAutoInclude

MaxFilesOf(mode) ==
  IF mode = "conservative" THEN 8 ELSE 20

\* mutant: the percentiles of the two modes exchanged
PercentileOfExchanged(mode) ==
  IF mode = "conservative" THEN 70 ELSE 85

\* pct, in hundredths
PercentileOf(mode) ==
  IF mode = "conservative" THEN 85 ELSE 70

Scores(cs) ==
  [i \in 1..Len(cs) |-> cs[i].score]

\* mutant: the threshold is the absolute one, without the percentile
MinScoreAbsolute(remaining, mode) ==
  150

MinScore(remaining, mode) ==
  LET scores == SortAscending(Scores(remaining))
      idx == Max(0, Min(Len(scores) - 1, (Len(scores) * PercentileOf(mode)) \div 100))
      percentileCut == IF idx + 1 \in DOMAIN scores THEN scores[idx + 1] ELSE 0
  IN  Max(percentileCut, 150)

\* mutant: the loop without its break at maxFiles
RECURSIVE SelectLoopWithoutCap(_, _, _, _, _, _)
SelectLoopWithoutCap(remaining, selected, usedTokens, minScore, maxFiles, tokenBudget) ==
  IF remaining = <<>> THEN selected
  ELSE LET candidate == Head(remaining)
       IN  IF candidate.score < minScore
           THEN SelectLoopWithoutCap(Tail(remaining), selected, usedTokens, minScore,
                                     maxFiles, tokenBudget)
           ELSE IF usedTokens + candidate.tokens > tokenBudget THEN selected
           ELSE SelectLoopWithoutCap(Tail(remaining), Append(selected, candidate),
                                     usedTokens + candidate.tokens, minScore, maxFiles,
                                     tokenBudget)

\* mutant: the loop without the test on minScore
RECURSIVE SelectLoopWithoutThreshold(_, _, _, _, _, _)
SelectLoopWithoutThreshold(remaining, selected, usedTokens, minScore, maxFiles, tokenBudget) ==
  IF remaining = <<>> THEN selected
  ELSE LET candidate == Head(remaining)
       IN  IF Len(selected) >= maxFiles THEN selected
           ELSE IF usedTokens + candidate.tokens > tokenBudget THEN selected
           ELSE SelectLoopWithoutThreshold(Tail(remaining), Append(selected, candidate),
                                           usedTokens + candidate.tokens, minScore,
                                           maxFiles, tokenBudget)

\* the loop over remaining, with its two breaks
RECURSIVE SelectLoop(_, _, _, _, _, _)
SelectLoop(remaining, selected, usedTokens, minScore, maxFiles, tokenBudget) ==
  IF remaining = <<>> THEN selected
  ELSE LET candidate == Head(remaining)
       IN  IF candidate.score < minScore
           THEN SelectLoop(Tail(remaining), selected, usedTokens, minScore, maxFiles,
                           tokenBudget)
           ELSE IF Len(selected) >= maxFiles THEN selected
           ELSE IF usedTokens + candidate.tokens > tokenBudget THEN selected
           ELSE SelectLoop(Tail(remaining), Append(selected, candidate),
                           usedTokens + candidate.tokens, minScore, maxFiles, tokenBudget)

TokensOf(cs) ==
  SumSeq([i \in 1..Len(cs) |-> cs[i].tokens])

AutoIncludesOf(candidates) ==
  SelectSeq(candidates, IsAuto)

\* mutant: the auto-includes are pushed after the files the loop selects
SelectWithinBudgetAutoIncludesLast(candidates, tokenBudget, mode) ==
  LET autoIncludes == AutoIncludesOf(candidates)
      remaining == SelectSeq(candidates, IsNotAuto)
      others == SelectLoop(remaining, <<>>, TokensOf(autoIncludes),
                           MinScore(remaining, mode),
                           MaxFilesOf(mode) - Len(autoIncludes), tokenBudget)
  IN  others \o autoIncludes

\* mutant: the tokens of the auto-includes are not counted as used
SelectWithinBudgetFromZero(candidates, tokenBudget, mode) ==
  LET autoIncludes == AutoIncludesOf(candidates)
      remaining == SelectSeq(candidates, IsNotAuto)
  IN  SelectLoop(remaining, autoIncludes, 0,
                 MinScore(remaining, mode), MaxFilesOf(mode), tokenBudget)

SelectWithinBudget(candidates, tokenBudget, mode) ==
  LET autoIncludes == AutoIncludesOf(candidates)
      remaining == SelectSeq(candidates, IsNotAuto)
  IN  SelectLoop(remaining, autoIncludes, TokensOf(autoIncludes),
                 MinScore(remaining, mode), MaxFilesOf(mode), tokenBudget)

-----------------------------------------------------------------------------
(* selectFiles: the result *)

\* the scoringMethod selectFiles reports
ReportedMethod(prov) ==
  IF IsAvailable(prov) THEN "embeddings" ELSE "tf-idf"

\* reasons.join(", "): the pieces of the joined text, the reasons with a
\* separator between each two of them (nothing for no reasons)
JoinReasons(reasons) ==
  [i \in 1..(IF Len(reasons) = 0 THEN 0 ELSE 2 * Len(reasons) - 1) |->
     IF i % 2 = 1 THEN reasons[(i + 1) \div 2] ELSE ", "]

\* mutant: topScores lists every selected file
SmartResultWithAllScores(selected, candidates, tokenBudget, prov) ==
  [selectedFiles |->
     [i \in 1..Len(selected) |->
        [path |-> selected[i].path, content |-> selected[i].content,
         force |-> selected[i].isAutoInclude]],
   debug |->
     [totalCandidates |-> Len(candidates),
      selectedCount |-> Len(selected),
      tokenUsage |-> TokensOf(selected),
      tokenBudget |-> tokenBudget,
      scoringMethod |-> ReportedMethod(prov),
      topScores |->
        [i \in 1..Len(selected) |->
           [path |-> selected[i].path, score |-> selected[i].score,
            reason |-> JoinReasons(selected[i].reasons)]],
      autoIncludesCount |-> Len(SelectSeq(selected, IsAuto)),
      excludedCount |-> Len(candidates) - Len(selected)]]

SmartResult(selected, candidates, tokenBudget, prov) ==
  [selectedFiles |->
     [i \in 1..Len(selected) |->
        [path |-> selected[i].path, content |-> selected[i].content,
         force |-> selected[i].isAutoInclude]],
   debug |->
     [totalCandidates |-> Len(candidates),
      selectedCount |-> Len(selected),
      tokenUsage |-> TokensOf(selected),
      tokenBudget |-> tokenBudget,
      scoringMethod |-> ReportedMethod(prov),
      topScores |->
        [i \in 1..Min(10, Len(selected)) |->
           [path |-> selected[i].path, score |-> selected[i].score,
            reason |-> JoinReasons(selected[i].reasons)]],
      autoIncludesCount |-> Len(SelectSeq(selected, IsAuto)),
      excludedCount |-> Len(candidates) - Len(selected)]]

IsForced(f) == f.force

\* mutant: the budget reported is the one calculated for the model
TraditionalResultWithModelBudget(files) ==
  LET totalTokens == SumSeq([i \in 1..Len(files) |-> EstimateTokens(files[i].content)])
  IN  [selectedFiles |-> files,
       debug |->
         [totalCandidates |-> Len(files),
          selectedCount |-> Len(files),
          tokenUsage |-> totalTokens,
          tokenBudget |-> CalculateTokenBudget(0),
          scoringMethod |-> "traditional",
          topScores |-> <<>>,
          autoIncludesCount |-> Len(SelectSeq(files, IsForced)),
          excludedCount |-> 0]]

\* selectFilesTraditional
TraditionalResult(files) ==
  LET totalTokens == SumSeq([i \in 1..Len(files) |-> EstimateTokens(files[i].content)])
  IN  [selectedFiles |-> files,
       debug |->
         [totalCandidates |-> Len(files),
          selectedCount |-> Len(files),
          tokenUsage |-> totalTokens,
          tokenBudget |-> totalTokens,
          scoringMethod |-> "traditional",
          topScores |-> <<>>,
          autoIncludesCount |-> Len(SelectSeq(files, IsForced)),
          excludedCount |-> 0]]

NoResult == [selectedFiles |-> <<>>, debug |-> "none"]

-----------------------------------------------------------------------------
(* One selectFiles call, step by step: a step is the code between two awaits *)

NewCall(in) ==
  [pc |-> "start",
   mode |-> in.mode, files |-> in.files, autoIncludes |-> in.autoIncludes,
   promptContext |-> in.promptContext, optBudget |-> in.optBudget,
   maxTokens |-> in.maxTokens,
   tokenBudget |-> 0, candidates |-> <<>>, idx |-> 0,
   queryEmbedding |-> <<>>, embedding |-> <<>>, statMtime |-> NoFile,
   usedScorer |-> "none", embedderUsed |-> FALSE, cacheUsed |-> FALSE,
   hits |-> {}, result |-> NoResult]

Query(call) ==
  BuildQuery(call.promptContext)

Candidate(call) ==
  call.candidates[call.idx]

CandidateKey(call) ==
  GetCacheKey(Candidate(call).path, Candidate(call).content)

\* the end of one iteration of the loop of scoreWithEmbeddings, and the sort
\* after the last one
NextCandidate(call) ==
  IF call.idx >= Len(call.candidates)
  THEN [call EXCEPT !.candidates = SortByScoreDesc(@), !.pc = "adjust",
                    !.usedScorer = "embeddings"]
  ELSE [call EXCEPT !.idx = @ + 1, !.pc = "stat"]

\* similarity, reason and heuristic boosts of the current candidate
ScoreCurrent(call, embedding, fs, clock) ==
  NextCandidate(
    [call EXCEPT !.candidates[call.idx] =
       AddHeuristicScores(
         [@ EXCEPT !.score = CosineSimilarity(call.queryEmbedding, embedding),
                   !.reasons = Append(@, "embedding similarity")],
         Query(call), fs, clock)])

\* mutant: the candidate's embedding error is thrown again
RethrowFromCandidate(call) ==
  [call EXCEPT !.pc = "threw"]

\* catch of the candidate's embed call: log and continue
SkipCurrent(call) ==
  NextCandidate(call)

\* catch of scoreWithEmbeddings: fall back to TF-IDF
FallBackToTFIDF(call, fs, clock) ==
  [call EXCEPT !.candidates = ScoreWithTFIDF(@, Query(call), fs, clock),
               !.usedScorer = "tf-idf", !.pc = "adjust"]

\* catch around the cache lookup and catch inside get: no cached embedding
CacheMiss(call) ==
  [call EXCEPT !.pc = "embed"]

\* catch around the cache write and catch inside set: go on without caching
CacheSetFailed(call, fs, clock) ==
  ScoreCurrent(call, call.embedding, fs, clock)

SelectFiles(c) ==
  /\ calls[c].pc = "start"
  /\ LET call == calls[c]
     IN  calls' = [calls EXCEPT ![c] =
           IF call.mode = "off"
           THEN [call EXCEPT !.result = TraditionalResult(call.files), !.pc = "done"]
           ELSE [call EXCEPT
                   !.tokenBudget = TokenBudget(call.optBudget, call.maxTokens),
                   !.candidates = PrepareCandidates(call.files, call.autoIncludes),
                   !.pc = "score"]]
  /\ UNCHANGED <<cache, provider, embedFails, stat, now, writes, ops, fsFails, cleanup, settings, deepLink>>

ScoreCandidates(c) ==
  /\ calls[c].pc = "score"
  /\ LET call == calls[c]
     IN  calls' = [calls EXCEPT ![c] =
           IF IsAvailable(provider)
           THEN [call EXCEPT !.pc = "embedQuery"]
           ELSE [call EXCEPT
                   !.candidates = ScoreWithTFIDF(call.candidates, Query(call), stat, now),
                   !.usedScorer = "tf-idf", !.pc = "adjust"]]
  /\ UNCHANGED <<cache, provider, embedFails, stat, now, writes, ops, fsFails, cleanup, settings, deepLink>>

EmbedQuery(c) ==
  /\ calls[c].pc = "embedQuery"
  /\ LET call == [calls[c] EXCEPT !.embedderUsed = TRUE]
     IN  calls' = [calls EXCEPT ![c] =
           IF Query(call) \in embedFails
           THEN FallBackToTFIDF(call, stat, now)
           ELSE NextCandidate([call EXCEPT
                  !.queryEmbedding = EmbedVector(provider, Query(call))])]
  /\ UNCHANGED <<cache, provider, embedFails, stat, now, writes, ops, fsFails, cleanup, settings, deepLink>>

StatCandidate(c) ==
  /\ calls[c].pc = "stat"
  /\ LET call == calls[c]
     IN  calls' = [calls EXCEPT ![c] =
           IF stat[Candidate(call).path] = NoFile
           THEN CacheMiss(call)
           ELSE [call EXCEPT !.statMtime = stat[Candidate(call).path],
                             !.pc = "cacheGet"]]
  /\ UNCHANGED <<cache, provider, embedFails, stat, now, writes, ops, fsFails, cleanup, settings, deepLink>>

CacheGet(c) ==
  /\ calls[c].pc = "cacheGet"
  /\ LET call == [calls[c] EXCEPT !.cacheUsed = TRUE]
         got == GetOutcome(cache, CandidateKey(call), call.statMtime)
     IN  \/ calls' = [calls EXCEPT ![c] =
                IF got.kind = "hit"
                THEN ScoreCurrent(
                       [call EXCEPT !.hits = @ \cup
                          {[path |-> Candidate(call).path,
                            content |-> Candidate(call).content,
                            mtime |-> call.statMtime, embedding |-> got.embedding]}],
                       got.embedding, stat, now)
                ELSE IF got.kind = "stale" THEN [call EXCEPT !.pc = "unlink"]
                ELSE CacheMiss(call)]
         \/ \* readFile fails on a file that is there
            /\ "readFile" \in fsFails
            /\ HasEntry(cache, CandidateKey(call))
            /\ calls' = [calls EXCEPT ![c] = CacheMiss(call)]
  /\ UNCHANGED <<cache, provider, embedFails, stat, now, writes, ops, fsFails, cleanup, settings, deepLink>>

CacheUnlink(c) ==
  /\ calls[c].pc = "unlink"
  /\ \/ cache' = Unlink(cache, CandidateKey(calls[c]))
     \/ \* unlink fails; the error is dropped
        /\ "unlink" \in fsFails
        /\ HasEntry(cache, CandidateKey(calls[c]))
        /\ UNCHANGED cache
  /\ calls' = [calls EXCEPT ![c] = CacheMiss(calls[c])]
  /\ UNCHANGED <<provider, embedFails, stat, now, writes, ops, fsFails, cleanup, settings, deepLink>>

EmbedCandidate(c) ==
  /\ calls[c].pc = "embed"
  /\ LET call == [calls[c] EXCEPT !.embedderUsed = TRUE]
     IN  calls' = [calls EXCEPT ![c] =
           IF Candidate(call).content \in embedFails
           THEN SkipCurrent(call)
           ELSE [call EXCEPT !.embedding = EmbedVector(provider, Candidate(call).content),
                             !.pc = "statForSet"]]
  /\ UNCHANGED <<cache, provider, embedFails, stat, now, writes, ops, fsFails, cleanup, settings, deepLink>>

StatForSet(c) ==
  /\ calls[c].pc = "statForSet"
  /\ LET call == calls[c]
     IN  calls' = [calls EXCEPT ![c] =
           IF stat[Candidate(call).path] = NoFile
           THEN CacheSetFailed(call, stat, now)
           ELSE [call EXCEPT !.statMtime = stat[Candidate(call).path],
                             !.pc = "cacheSet"]]
  /\ UNCHANGED <<cache, provider, embedFails, stat, now, writes, ops, fsFails, cleanup, settings, deepLink>>

\* fs.writeFile truncates the file and then writes the text
CacheSetBegin(c) ==
  /\ calls[c].pc = "cacheSet"
  /\ LET call == [calls[c] EXCEPT !.cacheUsed = TRUE]
         text == CacheText(Candidate(call).path, Candidate(call).content,
                           call.statMtime, call.embedding)
     IN  \/ \E part \in TruncatedWrites(text) :
              /\ cache' = WriteFile(cache, CandidateKey(call), part, now)
              /\ calls' = [calls EXCEPT ![c] = [call EXCEPT !.pc = "cacheSetEnd"]]
         \/ \* writeFile fails before it wrote anything
            /\ "writeFile" \in fsFails
            /\ UNCHANGED cache
            /\ calls' = [calls EXCEPT ![c] = CacheSetFailed(call, stat, now)]
  /\ UNCHANGED <<provider, embedFails, stat, now, writes, ops, fsFails, cleanup, settings, deepLink>>

CacheSetEnd(c) ==
  /\ calls[c].pc = "cacheSetEnd"
  /\ LET call == calls[c]
         text == CacheText(Candidate(call).path, Candidate(call).content,
                           call.statMtime, call.embedding)
     IN  \/ /\ cache' = WriteFile(cache, CandidateKey(call), text, now)
            /\ writes' = writes \cup
                 {[path |-> Candidate(call).path, content |-> Candidate(call).content,
                   mtime |-> call.statMtime, embedding |-> call.embedding]}
            /\ calls' = [calls EXCEPT ![c] = ScoreCurrent(call, call.embedding, stat, now)]
         \/ \* writeFile fails part way and leaves what it wrote
            /\ "writeFile" \in fsFails
            /\ UNCHANGED <<cache, writes>>
            /\ calls' = [calls EXCEPT ![c] = CacheSetFailed(call, stat, now)]
  /\ UNCHANGED <<provider, embedFails, stat, now, ops, fsFails, cleanup, settings, deepLink>>

\* the keyword adjustments of scoreCandidates and its final sort
AdjustCandidates(c) ==
  /\ calls[c].pc = "adjust"
  /\ LET call == calls[c]
     IN  calls' = [calls EXCEPT ![c] =
           [call EXCEPT
              !.candidates = AdjustAndSort(call.candidates, ExtractKeywords(Query(call))),
              !.pc = "select"]]
  /\ UNCHANGED <<cache, provider, embedFails, stat, now, writes, ops, fsFails, cleanup, settings, deepLink>>

\* selectWithinBudget and the result of selectFiles
ReturnResult(c) ==
  /\ calls[c].pc = "select"
  /\ LET call == calls[c]
     IN  calls' = [calls EXCEPT ![c] =
           [call EXCEPT
              !.result =
                SmartResult(SelectWithinBudget(call.candidates, call.tokenBudget, call.mode),
                            call.candidates, call.tokenBudget, provider),
              !.pc = "done"]]
  /\ UNCHANGED <<cache, provider, embedFails, stat, now, writes, ops, fsFails, cleanup, settings, deepLink>>

Next ==
  \/ \E c \in DOMAIN calls : SelectFiles(c)
  \/ \E c \in DOMAIN calls : ScoreCandidates(c)
  \/ \E c \in DOMAIN calls : EmbedQuery(c)
  \/ \E c \in DOMAIN calls : StatCandidate(c)
  \/ \E c \in DOMAIN calls : CacheGet(c)
  \/ \E c \in DOMAIN calls : CacheUnlink(c)
  \/ \E c \in DOMAIN calls : EmbedCandidate(c)
  \/ \E c \in DOMAIN calls : StatForSet(c)
  \/ \E c \in DOMAIN calls : CacheSetBegin(c)
  \/ \E c \in DOMAIN calls : CacheSetEnd(c)
  \/ \E c \in DOMAIN calls : AdjustCandidates(c)
  \/ \E c \in DOMAIN calls : ReturnResult(c)

-----------------------------------------------------------------------------
(* The inputs of the model *)

\* the longest list of files the scanner returns
MaxFiles == 2

ThemeToggleFile ==
  [path |-> <<"s","r","c","/","T","h","e","m","e","T","o","g","g","l","e",".","t","s","x">>, content |-> <<"d","a","r","k"," ","t","h","e","m","e"," ","t","o","g","g","l","e">>, force |-> FALSE]

ChartFile ==
  [path |-> <<"s","r","c","/","c","h","a","r","t","/","B","a","r",".","t","s","x">>, content |-> <<"b","a","r"," ","g","r","a","p","h">>, force |-> FALSE]

EnvFile ==
  [path |-> <<".","e","n","v">>, content |-> <<"k","e","y">>, force |-> TRUE]

ParserFile ==
  [path |-> <<"l","i","b","/","p","a","r","s","e","r",".","t","s">>, content |-> <<"p","a","r","s","e","r"," ","l","o","g","i","n"," ","p","a","r","s","e","r">>, force |-> FALSE]

Workspace ==
  <<ThemeToggleFile, ChartFile, EnvFile, ParserFile>>

\* the files of the workspace at the positions in S, in the workspace's order
RECURSIVE FilesAt(_, _)
FilesAt(S, i) ==
  IF i > Len(Workspace) THEN <<>>
  ELSE (IF i \in S THEN <<Workspace[i]>> ELSE <<>>) \o FilesAt(S, i + 1)

FileLists ==
  {FilesAt(S, 1) : S \in {T \in SUBSET (1..Len(Workspace)) : Cardinality(T) <= MaxFiles}}

ThemePrompt ==
  [userPrompt |-> <<"a","d","d"," ","a"," ","d","a","r","k"," ","m","o","d","e"," ","t","o","g","g","l","e"," ","t","h","e","m","e">>, recentMessages |-> <<>>]

LoginPrompt ==
  [userPrompt |-> <<"f","i","x"," ","l","o","g","i","n"," ","b","u","g">>,
   recentMessages |-> << [role |-> "user", content |-> <<"r","e","f","a","c","t","o","r"," ","p","a","r","s","e","r">>],
                         [role |-> "assistant", content |-> <<"o","k">>] >>]

Prompts ==
  {ThemePrompt, LoginPrompt}

Clock == 5000

WorkspaceStat ==
  (ThemeToggleFile.path :> Clock - 2) @@ (ChartFile.path :> Clock - 100)
  @@ (EnvFile.path :> Clock - 2000) @@ (ParserFile.path :> Clock - 500)

\* the write that left an entry, as the history records it
WriteOf(file, mtime, prov) ==
  [path |-> file.path, content |-> file.content, mtime |-> mtime,
   embedding |-> EmbedVector(prov, file.content)]

EntryOf(file, mtime, prov) ==
  [text |-> CacheText(file.path, file.content, mtime, EmbedVector(prov, file.content)),
   mtimeMs |-> Clock - 1]

EmptyCache == <<>>

\* an entry of ThemeToggleFile that is fresh, and one that is stale
FreshCache ==
  GetCacheKey(ThemeToggleFile.path, ThemeToggleFile.content)
    :> EntryOf(ThemeToggleFile, WorkspaceStat[ThemeToggleFile.path], "openai")

StaleCache ==
  GetCacheKey(ThemeToggleFile.path, ThemeToggleFile.content)
    :> EntryOf(ThemeToggleFile, WorkspaceStat[ThemeToggleFile.path] - 50, "openai")

InitOff ==
  /\ \E files \in FileLists, prompt \in Prompts, budget \in {NoBudget, 4} :
       calls = << NewCall([mode |-> "off", files |-> files, autoIncludes |-> {},
                           promptContext |-> prompt, optBudget |-> budget,
                           maxTokens |-> 0]) >>
  /\ provider \in {"none", "openai"}
  /\ fsFails = {}
  /\ cleanup = CleanupDone
  /\ settings = NoSettings
  /\ deepLink = NoDeepLink
  /\ embedFails = {}
  /\ stat = WorkspaceStat
  /\ cache = EmptyCache
  /\ writes = {}

InitTfidf ==
  /\ fsFails = {}
  /\ cleanup = CleanupDone
  /\ settings = NoSettings
  /\ deepLink = NoDeepLink
  /\ \E files \in FileLists, prompt \in Prompts, budget \in {NoBudget, 0, 2, 5},
        auto \in {{}, {ChartFile.path}}, mode \in {"conservative", "balanced"},
        maxTokens \in {0, 128000} :
       /\ budget \notin {NoBudget, 0} => maxTokens = 0
       /\ calls = << NewCall([mode |-> mode, files |-> files, autoIncludes |-> auto,
                              promptContext |-> prompt, optBudget |-> budget,
                              maxTokens |-> maxTokens]) >>
  /\ provider = "none"
  /\ embedFails = {}
  /\ stat \in {WorkspaceStat, [WorkspaceStat EXCEPT ![ChartFile.path] = NoFile]}
  /\ cache = EmptyCache
  /\ writes = {}

InitEmbeddings ==
  /\ \E files \in FileLists, prompt \in Prompts, mode \in {"conservative", "balanced"} :
       calls = << NewCall([mode |-> mode, files |-> files, autoIncludes |-> {},
                           promptContext |-> prompt, optBudget |-> 9,
                           maxTokens |-> 0]) >>
  /\ provider = "openai"
  /\ fsFails \in {{}, FsOperations}
  /\ cleanup = CleanupDone
  /\ settings = NoSettings
  /\ deepLink = NoDeepLink
  /\ embedFails \in {{}, {BuildQuery(p) : p \in Prompts}, {ChartFile.content},
                     {EnvFile.content}, {ThemeToggleFile.content}}
  /\ stat \in {WorkspaceStat, [WorkspaceStat EXCEPT ![ChartFile.path] = NoFile]}
  /\ \/ cache = EmptyCache /\ writes = {}
     \/ /\ cache = FreshCache
        /\ writes = {WriteOf(ThemeToggleFile, WorkspaceStat[ThemeToggleFile.path], "openai")}
     \/ /\ cache = StaleCache
        /\ writes = {WriteOf(ThemeToggleFile, WorkspaceStat[ThemeToggleFile.path] - 50,
                             "openai")}

Init ==
  /\ now = Clock
  /\ ops = <<>>
  /\ (InitOff \/ InitTfidf \/ InitEmbeddings)

Spec ==
  Init /\ [][Next]_vars

-----------------------------------------------------------------------------
(* Properties of one call *)

Done(call) ==
  call.pc = "done"

Scored(call) ==
  Done(call) /\ call.mode # "off"

\* the input files the call must treat as auto-includes
MarkedAutoInclude(call, file) ==
  file.force \/ file.path \in call.autoIncludes

IsSelected(call, file) ==
  \E j \in 1..Len(call.result.selectedFiles) :
     /\ call.result.selectedFiles[j].path = file.path
     /\ call.result.selectedFiles[j].content = file.content

FilesTokens(files) ==
  SumSeq([i \in 1..Len(files) |-> EstimateTokens(files[i].content)])

AutoTokens(call) ==
  FilesTokens(SelectSeq(call.files, LAMBDA f : MarkedAutoInclude(call, f)))

SelectedOtherTokens(call) ==
  FilesTokens(SelectSeq(call.result.selectedFiles, LAMBDA f : ~f.force))

\* C1: in conservative and balanced mode every file marked auto-include (force
\* flag, or path among the auto-include paths) is in selectedFiles, whatever
\* its score, its tokens and the budget.
C1_AutoIncludesSelected ==
  \A c \in DOMAIN calls :
    Scored(calls[c]) =>
      \A i \in 1..Len(calls[c].files) :
        MarkedAutoInclude(calls[c], calls[c].files[i])
          => IsSelected(calls[c], calls[c].files[i])

\* an auto-include is selected although the auto-includes alone exceed the budget
C1_Witness ==
  \E c \in DOMAIN calls :
    /\ Scored(calls[c])
    /\ AutoTokens(calls[c]) > calls[c].result.debug.tokenBudget
    /\ \E i \in 1..Len(calls[c].files) :
         /\ MarkedAutoInclude(calls[c], calls[c].files[i])
         /\ IsSelected(calls[c], calls[c].files[i])

\* C3: scoringMethod names the scorer that produced the scores of the call.
C3_ReportedMethodIsActual ==
  \A c \in DOMAIN calls :
    Scored(calls[c]) => calls[c].result.debug.scoringMethod = calls[c].usedScorer

\* C4: when the auto-includes alone fit the budget, tokenUsage is at most
\* tokenBudget, and the selected files that are no auto-includes take at most
\* what the auto-includes leave of the budget.
C4_BudgetRespected ==
  \A c \in DOMAIN calls :
    (Scored(calls[c]) /\ AutoTokens(calls[c]) <= calls[c].result.debug.tokenBudget) =>
      /\ calls[c].result.debug.tokenUsage <= calls[c].result.debug.tokenBudget
      /\ calls[c].result.debug.tokenUsage = FilesTokens(calls[c].result.selectedFiles)
      /\ SelectedOtherTokens(calls[c])
           <= calls[c].result.debug.tokenBudget - AutoTokens(calls[c])

\* the budget leaves out a candidate that passed the threshold and the file cap
C4_Witness ==
  \E c \in DOMAIN calls :
    /\ Scored(calls[c])
    /\ AutoTokens(calls[c]) <= calls[c].result.debug.tokenBudget
    /\ calls[c].result.debug.selectedCount < MaxFilesOf(calls[c].mode)
    /\ \E k \in 1..Len(calls[c].candidates) :
         LET cand == calls[c].candidates[k]
         IN  /\ ~cand.isAutoInclude
             /\ cand.score >= MinScore(SelectSeq(calls[c].candidates, IsNotAuto),
                                       calls[c].mode)
             /\ ~IsSelected(calls[c], cand)
             /\ calls[c].result.debug.tokenUsage + cand.tokens
                  > calls[c].result.debug.tokenBudget

HasReason(cand, reason) ==
  InSeq(reason, cand.reasons)

\* the candidate as the adjustments alone leave it: base score 0, then the
\* heuristic boosts, then the keyword adjustments
AdjustedFromZero(call, cand) ==
  KeywordAdjust(
    AddHeuristicScores([cand EXCEPT !.score = 0, !.reasons = <<>>], Query(call), stat, now),
    ExtractKeywords(Query(call)))

\* C5: on the embedding path a candidate whose own embedding failed keeps base
\* score 0 and still gets the heuristic boosts (path, recency, auto-include)
\* and the keyword adjustments.
C5_FailedEmbeddingKeepsHeuristics ==
  \A c \in DOMAIN calls :
    (Scored(calls[c]) /\ calls[c].usedScorer = "embeddings") =>
      \A k \in 1..Len(calls[c].candidates) :
        LET cand == calls[c].candidates[k]
        IN  ~HasReason(cand, "embedding similarity") =>
              /\ cand.score = AdjustedFromZero(calls[c], cand).score
              /\ cand.reasons = AdjustedFromZero(calls[c], cand).reasons

\* C6: with mode off the result is the scanner's files in their order, the
\* counts and token sums of all files, "traditional", no top scores, nothing
\* excluded, and neither the embedder nor the cache was used.
C6_OffModePassThrough ==
  \A c \in DOMAIN calls :
    (Done(calls[c]) /\ calls[c].mode = "off") =>
      /\ calls[c].result.selectedFiles = calls[c].files
      /\ calls[c].result.debug.selectedCount = Len(calls[c].files)
      /\ calls[c].result.debug.totalCandidates = Len(calls[c].files)
      /\ calls[c].result.debug.tokenUsage = FilesTokens(calls[c].files)
      /\ calls[c].result.debug.tokenBudget = FilesTokens(calls[c].files)
      /\ calls[c].result.debug.scoringMethod = "traditional"
      /\ calls[c].result.debug.topScores = <<>>
      /\ calls[c].result.debug.excludedCount = 0
      /\ calls[c].usedScorer = "none"
      /\ ~calls[c].embedderUsed
      /\ ~calls[c].cacheUsed

\* an off-mode call over several files returned, a provider being configured
\* and a token budget being given
C6_Witness ==
  \E c \in DOMAIN calls :
    /\ Done(calls[c])
    /\ calls[c].mode = "off"
    /\ Len(calls[c].files) >= 2
    /\ calls[c].optBudget # NoBudget
    /\ IsAvailable(provider)

\* the positions of a call, in the order the code passes them; those of the
\* loop of scoreWithEmbeddings are passed once per candidate
PcRank ==
  [pc \in {"start", "score", "embedQuery", "stat", "cacheGet", "unlink", "embed",
           "statForSet", "cacheSet", "cacheSetEnd", "adjust", "select", "done"} |->
     CASE pc = "start" -> 0
       [] pc = "score" -> 1
       [] pc = "embedQuery" -> 2
       [] pc = "stat" -> 3
       [] pc = "cacheGet" -> 4
       [] pc = "unlink" -> 5
       [] pc = "embed" -> 6
       [] pc = "statForSet" -> 7
       [] pc = "cacheSet" -> 8
       [] pc = "cacheSetEnd" -> 9
       [] pc = "adjust" -> 10
       [] pc = "select" -> 11
       [] pc = "done" -> 12]

InLoop(call) ==
  call.pc \in {"stat", "cacheGet", "unlink", "embed", "statForSet", "cacheSet",
               "cacheSetEnd"}

\* how far a call has come: a number that is bounded for a given input
Progress(call) ==
  IF InLoop(call) THEN 10 * call.idx + PcRank[call.pc]
  ELSE IF call.pc \in {"adjust", "select", "done"}
       THEN 10 * (Len(call.files) + 1) + PcRank[call.pc]
       ELSE PcRank[call.pc]

\* the call has not thrown and, unless it has returned, stands at a position
\* from which the code continues
Continues(call) ==
  /\ call.pc \in DOMAIN PcRank
  /\ InLoop(call) => call.idx \in 1..Len(call.candidates)
  /\ Done(call) => Len(call.result.selectedFiles) <= Len(call.files)

\* C7: selectFiles always returns: whatever fails (query embedding, a file's
\* embedding, cache reads, writes and deletes, stat), a call never throws, is
\* never stuck before its return, and every step brings it nearer to it.
C7_AlwaysReturns ==
  /\ [](\A c \in DOMAIN calls : Continues(calls[c]))
  /\ [][/\ \A c \in DOMAIN calls : Progress(calls'[c]) >= Progress(calls[c])
        /\ \E c \in DOMAIN calls : Progress(calls'[c]) > Progress(calls[c])]_vars

\* a call returned after its query embedding failed; another after a file's
\* embedding failed and a stat failed
C7_Witness ==
  \E c \in DOMAIN calls :
    /\ Scored(calls[c])
    /\ calls[c].embedderUsed
    /\ \/ Query(calls[c]) \in embedFails
       \/ \E i \in 1..Len(calls[c].files) :
             /\ calls[c].files[i].content \in embedFails
             /\ \E j \in 1..Len(calls[c].files) : stat[calls[c].files[j].path] = NoFile

-----------------------------------------------------------------------------
(* Stale cache entries during a call *)

\* a write of the file's vector completed under another mtime than the file has
WasCachedStale(file) ==
  \E w \in writes : /\ w.path = file.path
                    /\ w.content = file.content
                    /\ stat[file.path] # NoFile
                    /\ w.mtime # stat[file.path]

\* the cache holds the complete entry of the file's vector under its mtime
HoldsFreshEntry(dir, file) ==
  LET key == GetCacheKey(file.path, file.content)
  IN  /\ HasEntry(dir, key)
      /\ ParseOk(dir[key].text)
      /\ Parse(dir[key].text).mtime = stat[file.path]
      /\ Parse(dir[key].text).embedding = EmbedVector(provider, file.content)

\* the candidate the call is at has a stale entry that get has just found
AtStaleEntry(call) ==
  call.pc = "unlink"

\* what one step does to a stale entry and to the candidate that had it: the
\* file is unlinked and the next step of the call is the embedding of the
\* candidate's content
StaleEntryReplaced(c) ==
  /\ (AtStaleEntry(calls[c]) /\ calls'[c] # calls[c]) =>
        /\ ~HasEntry(cache', CandidateKey(calls[c]))
        /\ calls'[c].pc = "embed"
        /\ calls'[c].idx = calls[c].idx
  /\ (calls[c].pc = "embed" /\ calls'[c] # calls[c]
        /\ Candidate(calls[c]).content \notin embedFails) =>
        /\ calls'[c].embedderUsed
        /\ calls'[c].embedding = EmbedVector(provider, Candidate(calls[c]).content)

EndsWithFreshEntries(call, embedderMayFail) ==
  (Done(call) /\ call.usedScorer = "embeddings") =>
     \A i \in 1..Len(call.files) :
        (/\ WasCachedStale(call.files[i])
         /\ embedderMayFail \/ call.files[i].content \notin embedFails) =>
           HoldsFreshEntry(cache, call.files[i])

-----------------------------------------------------------------------------
(* The cap on the number of selected files: workspaces of many files whose
   scores are equal, so that every file passes the relevance threshold *)

\* the largest number of files the scanner returns here
CapFiles == 22

FileLetters ==
  <<"a", "b", "c", "d", "e", "f", "g", "h", "i", "j", "k", "l", "m", "n", "o", "p",
    "q", "r", "s", "t", "u", "v", "w", "x", "y", "z">>

\* the i-th parser file; the first `forced` files carry the scanner's force flag
ParserPart(i, forced) ==
  [path |-> <<"p","a","r","s","e","r">> \o <<FileLetters[i]>> \o <<".","t","s">>, content |-> <<"p","a","r","s","e","r">>,
   force |-> i <= forced]

ParserParts(n, forced) ==
  [i \in 1..n |-> ParserPart(i, forced)]

RefactorPrompt ==
  [userPrompt |-> <<"r","e","f","a","c","t","o","r"," ","p","a","r","s","e","r">>, recentMessages |-> <<>>]

InitCap ==
  /\ \E n \in 0..CapFiles, forced \in {0, 2, 8, 9, 21}, budget \in {12, 1000},
        mode \in {"conservative", "balanced"} :
       /\ forced <= n
       /\ calls = << NewCall([mode |-> mode, files |-> ParserParts(n, forced),
                              autoIncludes |-> {}, promptContext |-> RefactorPrompt,
                              optBudget |-> budget, maxTokens |-> 0]) >>
       /\ stat = [p \in {ParserPart(i, 0).path : i \in 1..n} |-> Clock - 2]
  /\ provider = "none"
  /\ embedFails = {}
  /\ cache = EmptyCache
  /\ writes = {}
  /\ now = Clock
  /\ ops = <<>>
  /\ fsFails = {}
  /\ cleanup = CleanupDone
  /\ settings = NoSettings
  /\ deepLink = NoDeepLink

\* the steps of a call that is scored by TF-IDF
NextTfidf ==
  \/ \E c \in DOMAIN calls : SelectFiles(c)
  \/ \E c \in DOMAIN calls : ScoreCandidates(c)
  \/ \E c \in DOMAIN calls : AdjustCandidates(c)
  \/ \E c \in DOMAIN calls : ReturnResult(c)

SpecCap ==
  InitCap /\ [][NextTfidf]_vars

\* the cap the modes are documented to have
DocumentedCap(mode) ==
  IF mode = "conservative" THEN 8 ELSE 20

\* C2 as stated: selectedCount is at most maxFiles(mode), auto-includes
\* counted, also when there are more auto-includes than maxFiles.
C2_SelectedCountWithinCap ==
  \A c \in DOMAIN calls :
    Scored(calls[c]) =>
      calls[c].result.debug.selectedCount <= DocumentedCap(calls[c].mode)

\* C2, amended: every auto-include is selected whatever their number, and
\* other files are added only while fewer than maxFiles(mode) files are
\* selected; selectedCount is at most the larger of maxFiles(mode) and the
\* number of auto-includes.
C2_CapLimitsOtherFiles ==
  \A c \in DOMAIN calls :
    Scored(calls[c]) =>
      LET debug == calls[c].result.debug
      IN  /\ debug.selectedCount
               <= Max(DocumentedCap(calls[c].mode), debug.autoIncludesCount)
          /\ debug.autoIncludesCount >= DocumentedCap(calls[c].mode)
               => debug.selectedCount = debug.autoIncludesCount

\* the cap stopped the selection: a conservative and a balanced call with
\* auto-includes, room in the budget and a further file above the threshold
\* that was left out at the cap
C2_Witness ==
  \E c \in DOMAIN calls :
    /\ Scored(calls[c])
    /\ calls[c].result.debug.autoIncludesCount \in 1..(DocumentedCap(calls[c].mode) - 1)
    /\ calls[c].result.debug.selectedCount = DocumentedCap(calls[c].mode)
    /\ \E k \in 1..Len(calls[c].candidates) :
         LET cand == calls[c].candidates[k]
         IN  /\ ~cand.isAutoInclude
             /\ ~IsSelected(calls[c], cand)
             /\ cand.score >= MinScore(SelectSeq(calls[c].candidates, IsNotAuto),
                                       calls[c].mode)
             /\ calls[c].result.debug.tokenUsage + cand.tokens
                  <= calls[c].result.debug.tokenBudget

-----------------------------------------------------------------------------
(* Permutations of the scanner's files: two calls that differ only in the
   order of their files *)

\* the longest list of files given to the two calls
PermFiles == 3

ToggleFile ==
  [path |-> <<"t","o","g","g","l","e",".","t","s">>, content |-> <<"o","n">>, force |-> FALSE]

MapFile ==
  [path |-> <<"a","/","m","a","p",".","t","s">>, content |-> <<"x","y">>, force |-> FALSE]

MapCopyFile ==
  [path |-> <<"b","/","m","a","p",".","t","s">>, content |-> <<"o","n","e"," ","t","w","o"," ","3">>, force |-> FALSE]

UtilFile ==
  [path |-> <<"l","i","b","/","u","t","i","l",".","t","s">>, content |-> <<"k","e","y">>, force |-> FALSE]

PermWorkspace ==
  <<ToggleFile, MapFile, MapCopyFile, UtilFile, EnvFile>>

PermStat ==
  (ToggleFile.path :> Clock - 2) @@ (MapFile.path :> Clock - 48)
  @@ (MapCopyFile.path :> Clock - 48) @@ (UtilFile.path :> Clock - 400)
  @@ (EnvFile.path :> Clock - 2000)

KeyMapPrompt ==
  [userPrompt |-> <<"t","o","g","g","l","e"," ","t","h","e"," ","k","e","y","_","m","a","p">>, recentMessages |-> <<>>]

\* the files of PermWorkspace at the positions in S, in the workspace's order
RECURSIVE PermFilesAt(_, _)
PermFilesAt(S, i) ==
  IF i > Len(PermWorkspace) THEN <<>>
  ELSE (IF i \in S THEN <<PermWorkspace[i]>> ELSE <<>>) \o PermFilesAt(S, i + 1)

Reorderings(files) ==
  {[i \in 1..Len(files) |-> files[f[i]]] :
     f \in {g \in [1..Len(files) -> 1..Len(files)] :
              \A i, j \in 1..Len(files) : g[i] = g[j] => i = j}}

InitPerm ==
  /\ \E S \in {T \in SUBSET (1..Len(PermWorkspace)) : Cardinality(T) <= PermFiles},
        budget \in {2, 1000}, mode \in {"conservative", "balanced"},
        auto \in {{}, {UtilFile.path}} :
       \E permuted \in Reorderings(PermFilesAt(S, 1)) :
         calls = << NewCall([mode |-> mode, files |-> PermFilesAt(S, 1),
                             autoIncludes |-> auto, promptContext |-> KeyMapPrompt,
                             optBudget |-> budget, maxTokens |-> 0]),
                    NewCall([mode |-> mode, files |-> permuted,
                             autoIncludes |-> auto, promptContext |-> KeyMapPrompt,
                             optBudget |-> budget, maxTokens |-> 0]) >>
  /\ stat = PermStat
  /\ provider = "none"
  /\ embedFails = {}
  /\ cache = EmptyCache
  /\ writes = {}
  /\ now = Clock
  /\ ops = <<>>
  /\ fsFails = {}
  /\ cleanup = CleanupDone
  /\ settings = NoSettings
  /\ deepLink = NoDeepLink

SpecPerm ==
  InitPerm /\ [][NextTfidf]_vars

BothDone ==
  \A c \in DOMAIN calls : Done(calls[c])

SelectedPaths(call) ==
  {call.result.selectedFiles[i].path : i \in 1..Len(call.result.selectedFiles)}

CandidateOf(cands, path) ==
  cands[CHOOSE k \in 1..Len(cands) : cands[k].path = path]

\* the score of a file after the keyword adjustments
FinalScore(call, path) ==
  CandidateOf(call.candidates, path).score

InputIndex(call, path) ==
  CHOOSE i \in 1..Len(call.files) : call.files[i].path = path

\* C8 as stated: for any permutation of the files the same files are selected,
\* and two files of equal final score appear in the output in input order.
C8_PermutationInvariant ==
  BothDone =>
    /\ SelectedPaths(calls[1]) = SelectedPaths(calls[2])
    /\ \A c \in DOMAIN calls :
         LET out == calls[c].result.selectedFiles
         IN  \A i, j \in 1..Len(out) :
               (i < j /\ FinalScore(calls[c], out[i].path) = FinalScore(calls[c], out[j].path))
                 => InputIndex(calls[c], out[i].path) < InputIndex(calls[c], out[j].path)

-----------------------------------------------------------------------------
(* Two concurrent calls on one engine: they share the cache directory *)

\* the calls in flight
Callers == {1, 2}

ReadmeFile ==
  [path |-> <<"R","E","A","D","M","E">>, content |-> <<".","m","d"," ","s","e","t","u","p">>, force |-> FALSE]

ReadmeMdFile ==
  [path |-> <<"R","E","A","D","M","E",".","m","d">>, content |-> <<" ","s","e","t","u","p">>, force |-> FALSE]

ConcStat ==
  (ThemeToggleFile.path :> Clock - 2) @@ (ReadmeFile.path :> Clock - 30)
  @@ (ReadmeMdFile.path :> Clock - 30)

SetupPrompt ==
  [userPrompt |-> <<"d","a","r","k"," ","t","h","e","m","e"," ","s","e","t","u","p">>, recentMessages |-> <<>>]

FileListsOf(c) ==
  IF c = 1 THEN {<<ReadmeFile>>, <<ThemeToggleFile>>, <<ThemeToggleFile, ReadmeFile>>}
  ELSE {<<ReadmeMdFile>>, <<ThemeToggleFile>>, <<ThemeToggleFile, ReadmeMdFile>>}

InitConc ==
  /\ calls \in [Callers ->
                  {NewCall([mode |-> "balanced", files |-> files, autoIncludes |-> {},
                            promptContext |-> SetupPrompt, optBudget |-> 9,
                            maxTokens |-> 0]) :
                     files \in FileListsOf(1) \cup FileListsOf(2)}]
  /\ \A c \in Callers : calls[c].files \in FileListsOf(c)
  /\ stat = ConcStat
  /\ provider = "openai"
  /\ embedFails = {}
  /\ \/ cache = EmptyCache /\ writes = {}
     \/ /\ cache = StaleCache
        /\ writes = {WriteOf(ThemeToggleFile, WorkspaceStat[ThemeToggleFile.path] - 50,
                             "openai")}
  /\ now = Clock
  /\ ops = <<>>
  /\ fsFails = FsOperations
  /\ cleanup = CleanupDone
  /\ settings = NoSettings
  /\ deepLink = NoDeepLink

SpecConc ==
  InitConc /\ [][Next]_vars

\* the result of a call that runs alone with a working embedder: every
\* candidate is scored with the embedding of its own content
ResultAlone(call) ==
  LET query == Query(call)
      prepared == PrepareCandidates(call.files, call.autoIncludes)
      scoreOne(cand) ==
        AddHeuristicScores(
          [cand EXCEPT !.score = CosineSimilarity(EmbedVector(provider, query),
                                                  EmbedVector(provider, cand.content)),
                       !.reasons = Append(@, "embedding similarity")],
          query, stat, now)
      scored == SortByScoreDesc([i \in 1..Len(prepared) |-> scoreOne(prepared[i])])
      adjusted == AdjustAndSort(scored, ExtractKeywords(query))
      budget == TokenBudget(call.optBudget, call.maxTokens)
  IN  SmartResult(SelectWithinBudget(adjusted, budget, call.mode), adjusted, budget,
                  provider)

\* C9: each of two interleaved calls returns the result it returns when run
\* alone, and a cache read returns only a vector that a completed write stored
\* for the same path, content and mtime.
C9_ConcurrentCallsIsolated ==
  \A c \in DOMAIN calls :
    /\ Done(calls[c]) => calls[c].result = ResultAlone(calls[c])
    /\ \A hit \in calls[c].hits : hit \in writes

-----------------------------------------------------------------------------
(* The cache on its own: one caller that calls set and get in turn.  Writes
   may fail part way; a file that is there can be read. *)

CacheFiles ==
  {ReadmeFile, ReadmeMdFile, ThemeToggleFile}

Mtimes ==
  {Clock - 30, Clock - 2}

Vectors ==
  {<<3, 4>>, <<5, 0>>, <<>>}

\* the history keeps the last two operations
Remember(history, op) ==
  IF Len(history) < 2 THEN Append(history, op) ELSE <<history[2], op>>

\* EmbeddingCache.set
SetEntry ==
  /\ \E file \in CacheFiles, mtime \in Mtimes, embedding \in Vectors :
       LET key == GetCacheKey(file.path, file.content)
           text == CacheText(file.path, file.content, mtime, embedding)
           op == [op |-> "set", path |-> file.path, content |-> file.content, ok |-> FALSE,
                  mtime |-> mtime, embedding |-> embedding]
       IN  \/ /\ cache' = WriteFile(cache, key, text, now)
              /\ ops' = Remember(ops, [op EXCEPT !.ok = TRUE])
           \/ \* writeFile fails and leaves what it wrote; the error is logged
              \E part \in TruncatedWrites(text) :
                /\ "writeFile" \in fsFails
                /\ cache' = WriteFile(cache, key, part, now)
                /\ ops' = Remember(ops, [op EXCEPT !.ok = FALSE])
  /\ UNCHANGED <<calls, provider, embedFails, stat, now, writes, fsFails, cleanup, settings, deepLink>>

\* EmbeddingCache.get: the vector, or null after a stale entry was unlinked
\* or nothing valid was found
GetEntry ==
  /\ \E file \in CacheFiles, mtime \in Mtimes :
       LET key == GetCacheKey(file.path, file.content)
           got == GetOutcome(cache, key, mtime)
           op == [op |-> "get", path |-> file.path, content |-> file.content, ok |-> FALSE,
                  embedding |-> <<>>,
                  mtime |-> mtime]
       IN  /\ cache' = IF got.kind = "stale" THEN Unlink(cache, key) ELSE cache
           /\ ops' = Remember(ops,
                IF got.kind = "hit"
                THEN [op EXCEPT !.embedding = got.embedding, !.ok = TRUE]
                ELSE [op EXCEPT !.embedding = <<>>, !.ok = FALSE])
  /\ UNCHANGED <<calls, provider, embedFails, stat, now, writes, fsFails, cleanup, settings, deepLink>>

InitCache ==
  /\ calls = <<>>
  /\ cache \in {EmptyCache, FreshCache, StaleCache}
  /\ provider = "openai"
  /\ embedFails = {}
  /\ stat = ConcStat
  /\ writes = {}
  /\ now = Clock
  /\ ops = <<>>
  /\ fsFails = {"writeFile"}
  /\ cleanup = CleanupDone
  /\ settings = NoSettings
  /\ deepLink = NoDeepLink

NextCache ==
  \/ SetEntry
  \/ GetEntry

SpecCache ==
  InitCache /\ [][NextCache]_vars

SameArguments(a, b) ==
  a.path = b.path /\ a.content = b.content /\ a.mtime = b.mtime

\* C10: a get that directly follows a successful set with the same path,
\* content and mtime returns the vector that was set.
C10_SetThenGetReturnsVector ==
  (/\ Len(ops) = 2
   /\ ops[1].op = "set" /\ ops[1].ok
   /\ ops[2].op = "get" /\ SameArguments(ops[1], ops[2]))
    => ops[2].ok /\ ops[2].embedding = ops[1].embedding

\* a vector was set over an entry of another mtime, and read back
C10_Witness ==
  /\ Len(ops) = 2
  /\ ops[1].op = "set" /\ ops[1].ok /\ ops[1].embedding # <<>>
  /\ ops[1].mtime # WorkspaceStat[ThemeToggleFile.path]
  /\ ops[1].path = ThemeToggleFile.path
  /\ ops[2].op = "get" /\ SameArguments(ops[1], ops[2])
  /\ ops[2].ok

LastOp(history) ==
  history[Len(history)]

\* the entry under the key, if the file there holds a complete entry
HoldsEntry(dir, key) ==
  key \in DOMAIN dir /\ ParseOk(dir[key].text)

StoredMtime(dir, key) ==
  Parse(dir[key].text).mtime

-----------------------------------------------------------------------------
(* Two successive calls of one engine with the same options *)

\* README and README.md have one cache key and different mtimes
SeqStat ==
  (ThemeToggleFile.path :> Clock - 2) @@ (ReadmeFile.path :> Clock - 30)
  @@ (ReadmeMdFile.path :> Clock - 2)

SeqFileLists ==
  {<<ThemeToggleFile>>, <<ReadmeFile, ThemeToggleFile>>, <<ReadmeFile, ReadmeMdFile>>,
   <<ReadmeMdFile, ThemeToggleFile, ReadmeFile>>}

\* what earlier runs can have left in the cache: nothing, a stale entry, an
\* entry written for another provider, and the entry written for README.md when
\* README.md had the mtime README has now
SeqCaches ==
  {EmptyCache, StaleCache,
   GetCacheKey(ThemeToggleFile.path, ThemeToggleFile.content)
     :> EntryOf(ThemeToggleFile, SeqStat[ThemeToggleFile.path], "local"),
   GetCacheKey(ReadmeMdFile.path, ReadmeMdFile.content)
     :> EntryOf(ReadmeMdFile, SeqStat[ReadmeFile.path], "openai")}

InitSeq ==
  /\ \E files \in SeqFileLists, mode \in {"off", "conservative", "balanced"},
        auto \in {{}, {ThemeToggleFile.path}} :
       calls = << NewCall([mode |-> mode, files |-> files, autoIncludes |-> auto,
                           promptContext |-> SetupPrompt, optBudget |-> 9,
                           maxTokens |-> 0]) >>
  /\ stat = SeqStat
  /\ provider \in {"none", "openai"}
  /\ embedFails \in {{}, {ReadmeFile.content}, {BuildQuery(SetupPrompt)}}
  /\ cache \in SeqCaches
  /\ writes = {}
  /\ now = Clock
  /\ ops = <<>>
  /\ fsFails = {}
  /\ cleanup = CleanupDone
  /\ settings = NoSettings
  /\ deepLink = NoDeepLink

\* the caller calls selectFiles again, with the options of the first call,
\* once the first call has returned
CallAgain ==
  /\ Len(calls) = 1
  /\ Done(calls[1])
  /\ calls' = Append(calls,
       NewCall([mode |-> calls[1].mode, files |-> calls[1].files,
                autoIncludes |-> calls[1].autoIncludes,
                promptContext |-> calls[1].promptContext,
                optBudget |-> calls[1].optBudget, maxTokens |-> calls[1].maxTokens]))
  /\ UNCHANGED <<cache, provider, embedFails, stat, now, writes, ops, fsFails, cleanup, settings, deepLink>>

NextSeq ==
  \/ \E c \in DOMAIN calls : SelectFiles(c)
  \/ \E c \in DOMAIN calls : ScoreCandidates(c)
  \/ \E c \in DOMAIN calls : EmbedQuery(c)
  \/ \E c \in DOMAIN calls : StatCandidate(c)
  \/ \E c \in DOMAIN calls : CacheGet(c)
  \/ \E c \in DOMAIN calls : CacheUnlink(c)
  \/ \E c \in DOMAIN calls : EmbedCandidate(c)
  \/ \E c \in DOMAIN calls : StatForSet(c)
  \/ \E c \in DOMAIN calls : CacheSetBegin(c)
  \/ \E c \in DOMAIN calls : CacheSetEnd(c)
  \/ \E c \in DOMAIN calls : AdjustCandidates(c)
  \/ \E c \in DOMAIN calls : ReturnResult(c)
  \/ CallAgain

SpecSeq ==
  InitSeq /\ [][NextSeq]_vars

\* C13: the second of two successive calls with the same options returns the
\* selectedFiles, in the same order, and the debug values that the first call
\* returned, whatever the cache held before the first call.
C13_SuccessiveCallsAgree ==
  (Len(calls) = 2 /\ Done(calls[1]) /\ Done(calls[2])) =>
     calls[2].result = calls[1].result

-----------------------------------------------------------------------------
(* The order of selectedFiles *)

\* C14: in the selectedFiles of a conservative or balanced call no file that
\* is not an auto-include comes before an auto-include.
C14_AutoIncludesFirst ==
  \A c \in DOMAIN calls :
    Scored(calls[c]) =>
      LET out == calls[c].result.selectedFiles
      IN  \A i, j \in 1..Len(out) : (i < j /\ out[j].force) => out[i].force

\* an auto-include precedes a file of higher final score that came before it
\* in the input
C14_Witness ==
  \E c \in DOMAIN calls :
    /\ Scored(calls[c])
    /\ LET out == calls[c].result.selectedFiles
       IN  \E i, j \in 1..Len(out) :
             /\ i < j /\ out[i].force /\ ~out[j].force
             /\ FinalScore(calls[c], out[i].path) < FinalScore(calls[c], out[j].path)
             /\ InputIndex(calls[c], out[j].path) < InputIndex(calls[c], out[i].path)

-----------------------------------------------------------------------------
(* The TF-IDF path *)

\* a candidate scored without embeddings: the TF-IDF score of its document for
\* the query, then the heuristic boosts, then the keyword adjustments
TfidfScored(call, cand) ==
  LET prepared == PrepareCandidates(call.files, call.autoIncludes)
      base == [cand EXCEPT !.score = ScoreDocument(Documents(prepared), cand.path,
                                                   Query(call)),
                           !.reasons = <<"tf-idf score">>]
  IN  KeywordAdjust(AddHeuristicScores(base, Query(call), stat, now),
                    ExtractKeywords(Query(call)))

RankedByScore(cands) ==
  \A i, j \in 1..Len(cands) : i < j => cands[i].score >= cands[j].score

WithoutProvider(call) ==
  /\ Scored(call)
  /\ ~call.embedderUsed
  /\ ~call.cacheUsed
  /\ call.result.debug.scoringMethod = "tf-idf"
  /\ \A k \in 1..Len(call.candidates) :
        /\ HasReason(call.candidates[k], "tf-idf score")
        /\ ~HasReason(call.candidates[k], "embedding similarity")
  /\ LET prepared == PrepareCandidates(call.files, call.autoIncludes)
     IN  /\ Len(call.candidates) = Len(prepared)
         /\ {call.candidates[k] : k \in 1..Len(call.candidates)}
              = {TfidfScored(call, prepared[i]) : i \in 1..Len(prepared)}
  /\ RankedByScore(call.candidates)

-----------------------------------------------------------------------------
(* The two modes on the same input: a conservative and a balanced call with
   the same files, prompt and budget, scored by TF-IDF *)

ModesFileLists ==
  {ParserParts(n, forced) : n \in {3, 9, CapFiles}, forced \in {0, 2}}
    \cup {PermFilesAt(S, 1) : S \in {T \in SUBSET (1..Len(PermWorkspace)) :
                                       Cardinality(T) >= 3}}

\* the files of PermWorkspace at four different ages, so that their scores differ
ModesStat ==
  (MapFile.path :> Clock - 2) @@ (MapCopyFile.path :> Clock - 48)
  @@ (UtilFile.path :> Clock - 400) @@ (ToggleFile.path :> Clock - 2000)
  @@ (EnvFile.path :> Clock - 2000)
  @@ [p \in {ParserPart(i, 0).path : i \in 1..Len(FileLetters)} |-> Clock - 2]

InitModes ==
  /\ \E files \in ModesFileLists, budget \in {2, 12, 1000},
        auto \in {{}, {UtilFile.path}}, prompt \in {KeyMapPrompt, RefactorPrompt} :
       calls = << NewCall([mode |-> "conservative", files |-> files,
                           autoIncludes |-> auto, promptContext |-> prompt,
                           optBudget |-> budget, maxTokens |-> 0]),
                  NewCall([mode |-> "balanced", files |-> files,
                           autoIncludes |-> auto, promptContext |-> prompt,
                           optBudget |-> budget, maxTokens |-> 0]) >>
  /\ stat = ModesStat
  /\ provider = "none"
  /\ embedFails = {}
  /\ cache = EmptyCache
  /\ writes = {}
  /\ now = Clock
  /\ ops = <<>>
  /\ fsFails = {}
  /\ cleanup = CleanupDone
  /\ settings = NoSettings
  /\ deepLink = NoDeepLink

SpecModes ==
  InitModes /\ [][NextTfidf]_vars

SelectedCount(call) ==
  call.result.debug.selectedCount

\* C16: on the same candidates, query, scorer and budget the conservative call
\* selects at most as many files as the balanced call.
C16_ConservativeSelectsNoMore ==
  BothDone => SelectedCount(calls[1]) <= SelectedCount(calls[2])

\* the conservative call selects fewer files because of its percentile
C16_Witness ==
  /\ BothDone
  /\ SelectedCount(calls[1]) < SelectedCount(calls[2])
  /\ SelectedCount(calls[2]) < MaxFilesOf("conservative")
  /\ calls[1].result.debug.tokenUsage + 1 < calls[1].tokenBudget

-----------------------------------------------------------------------------
(* The token budget *)

\* the budget derived from the model: M - 8000 and at least 10000, M being
\* maxTokens, or 32000 when the model reports none
DerivedBudget(maxTokens) ==
  LET M == IF maxTokens = 0 THEN 32000 ELSE maxTokens
  IN  IF M - 8000 > 10000 THEN M - 8000 ELSE 10000

\* C17 as stated: debug.tokenBudget of a conservative or balanced call is the
\* caller's tokenBudget whenever one is supplied, 0 included, and the budget
\* derived from the model otherwise.
C17_SuppliedBudgetIsUsed ==
  \A c \in DOMAIN calls :
    Scored(calls[c]) =>
      calls[c].result.debug.tokenBudget =
        IF calls[c].optBudget # NoBudget THEN calls[c].optBudget
        ELSE DerivedBudget(calls[c].maxTokens)

-----------------------------------------------------------------------------
(* The percentile threshold: a conservative call over thirty candidates, the
   first of them modified today and the others this week *)

\* the number of candidates
PercentileFiles == 30

\* the i-th of the candidates: paths parseraa.ts, parserab.ts, ...
PercentilePart(i) ==
  [path |-> <<"p","a","r","s","e","r">> \o <<FileLetters[((i - 1) \div Len(FileLetters)) + 1],
                           FileLetters[((i - 1) % Len(FileLetters)) + 1]>> \o <<".","t","s">>,
   content |-> <<"p","a","r","s","e","r">>, force |-> FALSE]

PercentileParts ==
  [i \in 1..PercentileFiles |-> PercentilePart(i)]

InitPercentile ==
  /\ \E budget \in {1000, 24000} :
       calls = << NewCall([mode |-> "conservative", files |-> PercentileParts,
                           autoIncludes |-> {}, promptContext |-> RefactorPrompt,
                           optBudget |-> budget, maxTokens |-> 0]) >>
  /\ \E recent \in 0..PercentileFiles :
       stat = [p \in {PercentilePart(i).path : i \in 1..PercentileFiles} |->
                 IF \E i \in 1..recent : PercentilePart(i).path = p
                 THEN Clock - 2 ELSE Clock - 48]
  /\ provider = "none"
  /\ embedFails = {}
  /\ cache = EmptyCache
  /\ writes = {}
  /\ now = Clock
  /\ ops = <<>>
  /\ fsFails = {}
  /\ cleanup = CleanupDone
  /\ settings = NoSettings
  /\ deepLink = NoDeepLink

SpecPercentile ==
  InitPercentile /\ [][NextTfidf]_vars

\* the score at index floor(n * 0.85) of the n scores in ascending order: the
\* score that has at most that many scores below it and more than that many
\* not above it
ScoreAtPercentile(cands) ==
  LET n == Len(cands)
      idx == (n * 85) \div 100
      below(v) == Cardinality({k \in 1..n : cands[k].score < v})
      notAbove(v) == Cardinality({k \in 1..n : cands[k].score <= v})
  IN  CHOOSE v \in {cands[k].score : k \in 1..n} : below(v) <= idx /\ idx < notAbove(v)

\* the candidates whose score reaches the threshold of the conservative mode
AboveThreshold(cands) ==
  LET threshold == IF ScoreAtPercentile(cands) > 150 THEN ScoreAtPercentile(cands) ELSE 150
  IN  {k \in 1..Len(cands) : cands[k].score >= threshold}

\* C18 as stated: the conservative call over the thirty candidates selects
\* exactly 8 files.
C18_SelectsExactlyEight ==
  \A c \in DOMAIN calls :
    Scored(calls[c]) => SelectedCount(calls[c]) = 8

\* C18, amended: the conservative call selects the candidates whose score is
\* at least the score at the 0.85 percentile (and at least 0.15), and at most 8
\* of them: 5 of thirty candidates when the five best scores are above the others.
C18_SelectsUpToEightAboveThreshold ==
  \A c \in DOMAIN calls :
    Scored(calls[c]) =>
      LET passing == Cardinality(AboveThreshold(calls[c].candidates))
      IN  SelectedCount(calls[c]) = IF passing < 8 THEN passing ELSE 8

C18_Witness ==
  \E c \in DOMAIN calls :
    /\ Scored(calls[c])
    /\ Len(calls[c].candidates) = PercentileFiles
    /\ Cardinality(AboveThreshold(calls[c].candidates)) = SelectedCount(calls[c])
    /\ SelectedCount(calls[c]) < 8
    /\ SelectedCount(calls[c]) > 0

-----------------------------------------------------------------------------
(* debug.topScores *)

TopScores(call) ==
  call.result.debug.topScores

\* the pieces of a joined text that are reasons: every second one
ReasonsIn(joined) ==
  {joined[i] : i \in {k \in 1..Len(joined) : k % 2 = 1}}

\* C19 as stated: every auto-include file of the result has "auto-include"
\* among its reasons in debug.topScores, on both paths, also when the embedding
\* of that file failed.
C19_AutoIncludeReasonReported ==
  \A c \in DOMAIN calls :
    Scored(calls[c]) =>
      \A i \in 1..Len(TopScores(calls[c])) :
        calls[c].result.selectedFiles[i].force =>
          "auto-include" \in ReasonsIn(TopScores(calls[c])[i].reason)

\* C20: topScores of a conservative or balanced call has min(10, selectedCount)
\* entries; the i-th is the path, the final score and the joined reasons of the
\* i-th file of selectedFiles.
C20_TopScoresMirrorSelection ==
  \A c \in DOMAIN calls :
    Scored(calls[c]) =>
      LET out == calls[c].result.selectedFiles
          top == TopScores(calls[c])
      IN  /\ Len(out) = SelectedCount(calls[c])
          /\ Len(top) = IF Len(out) < 10 THEN Len(out) ELSE 10
          /\ \A i \in 1..Len(top) :
               LET cand == CandidateOf(calls[c].candidates, out[i].path)
               IN  /\ top[i].path = out[i].path
                   /\ top[i].score = cand.score
                   /\ Len(top[i].reason) = 2 * Len(cand.reasons) - 1
                   /\ \A k \in 1..Len(cand.reasons) : top[i].reason[2 * k - 1] = cand.reasons[k]
                   /\ \A k \in 1..(Len(cand.reasons) - 1) : top[i].reason[2 * k] = ", "

\* more than ten files are selected and topScores has the first ten
C20_Witness ==
  \E c \in DOMAIN calls :
    /\ Scored(calls[c])
    /\ SelectedCount(calls[c]) > 10
    /\ Len(TopScores(calls[c])) = 10
    /\ Len(TopScores(calls[c])[10].reason) >= 3

-----------------------------------------------------------------------------
(* The relevance threshold *)

\* the element at index clamp(floor(len * pct), 0, len - 1) of the ascending
\* scores of the candidates that are not auto-includes, 0 when there are none
PercentileCutOf(call) ==
  LET others == {k \in 1..Len(call.candidates) : ~call.candidates[k].isAutoInclude}
      n == Cardinality(others)
      pct == IF call.mode = "conservative" THEN 85 ELSE 70
      floored == (n * pct) \div 100
      idx == IF floored > n - 1 THEN n - 1 ELSE floored
      below(v) == Cardinality({k \in others : call.candidates[k].score < v})
      notAbove(v) == Cardinality({k \in others : call.candidates[k].score <= v})
  IN  IF n = 0 THEN 0
      ELSE CHOOSE v \in {call.candidates[k].score : k \in others} :
             below(v) <= idx /\ idx < notAbove(v)

MinScoreOf(call) ==
  IF PercentileCutOf(call) > 150 THEN PercentileCutOf(call) ELSE 150

\* C21: every selected file that is not an auto-include has a final score of at
\* least max(percentileCut, 0.15), percentileCut taken at 0.85 (conservative) or
\* 0.70 (balanced) of the ascending scores of the candidates that are not
\* auto-includes.
C21_SelectedReachThreshold ==
  \A c \in DOMAIN calls :
    Scored(calls[c]) =>
      \A i \in 1..Len(calls[c].result.selectedFiles) :
        LET file == calls[c].result.selectedFiles[i]
        IN  ~file.force => FinalScore(calls[c], file.path) >= MinScoreOf(calls[c])

\* the balanced call selects a file that the conservative call filters, its
\* score lying between the two thresholds and above 0.15
C21_Witness ==
  /\ BothDone
  /\ MinScoreOf(calls[1]) > MinScoreOf(calls[2])
  /\ MinScoreOf(calls[2]) > 150
  /\ \E i \in 1..Len(calls[2].result.selectedFiles) :
        LET file == calls[2].result.selectedFiles[i]
        IN  /\ ~file.force
            /\ FinalScore(calls[2], file.path) < MinScoreOf(calls[1])
            /\ ~IsSelected(calls[1], file)

-----------------------------------------------------------------------------
(* A prompt repeated in the recent messages: two calls on the same files, the
   second with recent messages that repeat the prompt *)

FixLoginText == <<"f","i","x"," ","l","o","g","i","n"," ","b","u","g">>

RefactorText == <<"r","e","f","a","c","t","o","r"," ","p","a","r","s","e","r">>

\* recent messages that add no new token to the query of the prompt
RepeatsOf(text) ==
  { << [role |-> "user", content |-> text] >>,
    << [role |-> "assistant", content |-> text] >>,
    << [role |-> "user", content |-> text], [role |-> "user", content |-> text] >> }

InitRepeat ==
  /\ \E S \in {T \in SUBSET (1..Len(Workspace)) : Cardinality(T) >= 3},
        text \in {FixLoginText, RefactorText} :
       \E recent \in RepeatsOf(text) :
         calls = << NewCall([mode |-> "balanced", files |-> FilesAt(S, 1),
                             autoIncludes |-> {},
                             promptContext |-> [userPrompt |-> text,
                                                recentMessages |-> <<>>],
                             optBudget |-> 1000, maxTokens |-> 0]),
                    NewCall([mode |-> "balanced", files |-> FilesAt(S, 1),
                             autoIncludes |-> {},
                             promptContext |-> [userPrompt |-> text,
                                                recentMessages |-> recent],
                             optBudget |-> 1000, maxTokens |-> 0]) >>
  /\ stat = WorkspaceStat
  /\ provider = "none"
  /\ embedFails = {}
  /\ cache = EmptyCache
  /\ writes = {}
  /\ now = Clock
  /\ ops = <<>>
  /\ fsFails = {}
  /\ cleanup = CleanupDone
  /\ settings = NoSettings
  /\ deepLink = NoDeepLink

SpecRepeat ==
  InitRepeat /\ [][NextTfidf]_vars

TokenSet(text) ==
  {Tokenize(text)[k] : k \in 1..Len(Tokenize(text))}

RECURSIVE SumOver(_, _, _)
SumOver(tokens, docs, doc) ==
  IF tokens = {} THEN 0
  ELSE LET t == CHOOSE u \in tokens : TRUE
       IN  (CountOf(doc.tokens, t) * Idf(docs, t)) \div Len(doc.tokens)
             + SumOver(tokens \ {t}, docs, doc)

\* the sum of tf(doc, t) * idf(t) over the distinct tokens t of the query
DistinctTokenScore(call, cand) ==
  LET docs == Documents(PrepareCandidates(call.files, call.autoIncludes))
      doc == docs[CHOOSE i \in 1..Len(docs) : docs[i].path = cand.path]
  IN  IF Len(doc.tokens) = 0 THEN 0 ELSE SumOver(TokenSet(Query(call)), docs, doc)

\* C22 as stated: the TF-IDF score sums over the distinct tokens of the query,
\* so a call whose query repeats tokens of the prompt gives every file the
\* score the call on the prompt alone gives it.
C22_RepeatedTokensCountOnce ==
  BothDone =>
    /\ \A c \in DOMAIN calls : \A k \in 1..Len(calls[c].candidates) :
         LET cand == calls[c].candidates[k]
             base == [cand EXCEPT !.score = DistinctTokenScore(calls[c], cand)]
         IN  cand.score =
               KeywordAdjust(AddHeuristicScores(base, Query(calls[c]), stat, now),
                             ExtractKeywords(Query(calls[c]))).score
    /\ TokenSet(Query(calls[1])) = TokenSet(Query(calls[2])) =>
         \A i \in 1..Len(calls[1].files) :
            FinalScore(calls[1], calls[1].files[i].path)
              = FinalScore(calls[2], calls[1].files[i].path)

-----------------------------------------------------------------------------
(* The keyword adjustments: prompts about themes and about noise categories *)

ThemeToggleTsx ==
  [path |-> <<"s","r","c","/","c","o","m","p","o","n","e","n","t","s","/","T","h","e","m","e","T","o","g","g","l","e",".","t","s","x">>, content |-> <<"s","w","i","t","c","h">>, force |-> FALSE]

GlobalsCss ==
  [path |-> <<"s","r","c","/","a","p","p","/","g","l","o","b","a","l","s",".","c","s","s">>, content |-> <<"b","o","d","y">>, force |-> FALSE]

ChartsFile ==
  [path |-> <<"s","r","c","/","c","h","a","r","t","s","/","B","a","r",".","t","s","x">>, content |-> <<"b","a","r","s">>, force |-> FALSE]

KeywordWorkspace ==
  <<ThemeToggleTsx, GlobalsCss, ChartsFile, ParserFile>>

RECURSIVE KeywordFilesAt(_, _)
KeywordFilesAt(S, i) ==
  IF i > Len(KeywordWorkspace) THEN <<>>
  ELSE (IF i \in S THEN <<KeywordWorkspace[i]>> ELSE <<>>) \o KeywordFilesAt(S, i + 1)

KeywordStat ==
  (ThemeToggleTsx.path :> Clock - 2) @@ (GlobalsCss.path :> Clock - 48)
  @@ (ChartsFile.path :> Clock - 100) @@ (ParserFile.path :> Clock - 500)

KeywordPrompts ==
  {[userPrompt |-> text, recentMessages |-> <<>>] :
     text \in {<<"a","d","d"," ","a"," ","d","a","r","k"," ","m","o","d","e"," ","t","o","g","g","l","e">>, <<"n","e","w"," ","t","h","e","m","e"," ","c","o","l","o","r","s">>, <<"f","i","x"," ","l","o","g","i","n"," ","b","u","g">>,
               <<"r","u","n"," ","t","h","e"," ","t","e","s","t"," ","s","u","i","t","e">>, <<"b","i","g","g","e","r"," ","c","h","a","r","t","s">>, <<"a"," ","l","i","g","h","t"," ","s","w","i","t","c","h">>}}

InitKeywords ==
  /\ \E S \in SUBSET (1..Len(KeywordWorkspace)), prompt \in KeywordPrompts,
        mode \in {"conservative", "balanced"} :
       calls = << NewCall([mode |-> mode, files |-> KeywordFilesAt(S, 1),
                           autoIncludes |-> {}, promptContext |-> prompt,
                           optBudget |-> 1000, maxTokens |-> 0]) >>
  /\ stat = KeywordStat
  /\ provider = "none"
  /\ embedFails = {}
  /\ cache = EmptyCache
  /\ writes = {}
  /\ now = Clock
  /\ ops = <<>>
  /\ fsFails = {}
  /\ cleanup = CleanupDone
  /\ settings = NoSettings
  /\ deepLink = NoDeepLink

SpecKeywords ==
  InitKeywords /\ [][NextTfidf]_vars

\* the words of a text, in lower case
WordsOf(text) ==
  LET words == SplitWhitespace(ReplaceNonWordRuns(ToLowerCase(text)))
  IN  {words[k] : k \in 1..Len(words)}

InPath(cand, part) ==
  \/ Includes(ToLowerCase(Basename(cand.path)), ToLowerCase(part))
  \/ Includes(ToLowerCase(Dirname(cand.path)), ToLowerCase(part))

ThemeRelated(cand) ==
  \E p \in {<<"t","h","e","m","e">>, <<"t","o","g","g","l","e">>, <<"g","l","o","b","a","l","s",".","c","s","s">>, <<"t","a","i","l","w","i","n","d",".","c","o","n","f","i","g">>, <<"i","n","d","e","x",".","h","t","m","l">>,
            <<"a","p","p",".","c","s","s">>, <<"l","a","y","o","u","t">>, <<"t","h","e","m","e","t","o","g","g","l","e">>, <<"t","o","g","g","l","e","-","g","r","o","u","p">>} : InPath(cand, p)

\* C23 as stated: when the query mentions theme, toggle, dark or light, every
\* candidate with a theme-related path has the reason "bonus: theme-toggle
\* related path"; so for the prompt "add a dark mode toggle".
C23_ThemeWordsBoostThemePaths ==
  \A c \in DOMAIN calls :
    Scored(calls[c]) =>
      \A k \in 1..Len(calls[c].candidates) :
        (/\ WordsOf(Query(calls[c])) \cap {<<"t","h","e","m","e">>, <<"t","o","g","g","l","e">>, <<"d","a","r","k">>, <<"l","i","g","h","t">>} # {}
         /\ ThemeRelated(calls[c].candidates[k]))
          => HasReason(calls[c].candidates[k], "bonus: theme-toggle related path")

NegativeTokens ==
  {<<"c","h","a","r","t">>, <<"c","h","a","r","t","s">>, <<"g","r","a","p","h">>, <<"a","n","a","l","y","t","i","c","s">>, <<"t","e","s","t">>, <<"s","t","o","r","i","e","s">>, <<"s","t","o","r","y","b","o","o","k">>}

KeywordSet(call) ==
  {ExtractKeywords(Query(call))[k] : k \in 1..Len(ExtractKeywords(Query(call)))}

KeywordOccurs(call, cand) ==
  \E k \in KeywordSet(call) :
     InPath(cand, k) \/ Includes(ToLowerCase(cand.content), k)

\* C24 as stated: a candidate has the penalty exactly when its path contains a
\* negative token that no query keyword names and no query keyword occurs in
\* its path or content; a keyword naming another negative token does not lift
\* the penalty.
C24_PenaltyUnlessSameTokenMentioned ==
  \A c \in DOMAIN calls :
    Scored(calls[c]) =>
      \A k \in 1..Len(calls[c].candidates) :
        LET cand == calls[c].candidates[k]
        IN  HasReason(cand, "penalty: negative-dir without mention")
              <=> /\ \E d \in NegativeTokens : InPath(cand, d) /\ d \notin KeywordSet(calls[c])
                  /\ ~KeywordOccurs(calls[c], cand)

-----------------------------------------------------------------------------
(* The query: prompts with recent messages of several roles *)

\* the longest list of recent messages
MaxMessages == 5

RecentMessages ==
  { [role |-> "user", content |-> <<"l","o","g","i","n">>], [role |-> "user", content |-> <<"t","h","e"," ","p","a","r","s","e","r">>],
    [role |-> "assistant", content |-> <<"t","o","g","g","l","e">>], [role |-> "user", content |-> <<>>] }

InitQuery ==
  /\ \E n \in 0..MaxMessages :
       \E recent \in [1..n -> RecentMessages] :
         calls = << NewCall([mode |-> "balanced", files |-> <<ParserFile, ThemeToggleFile>>,
                             autoIncludes |-> {},
                             promptContext |-> [userPrompt |-> <<"f","i","x"," ","b","u","g">>,
                                                recentMessages |-> recent],
                             optBudget |-> 1000, maxTokens |-> 0]) >>
  /\ stat = WorkspaceStat
  /\ provider = "none"
  /\ embedFails = {}
  /\ cache = EmptyCache
  /\ writes = {}
  /\ now = Clock
  /\ ops = <<>>
  /\ fsFails = {}
  /\ cleanup = CleanupDone
  /\ settings = NoSettings
  /\ deepLink = NoDeepLink

SpecQuery ==
  InitQuery /\ [][NextTfidf]_vars

\* the positions of the last three user messages
LastUserPositions(messages) ==
  LET users == {i \in 1..Len(messages) : messages[i].role = "user"}
  IN  {i \in users : Cardinality({j \in users : j > i}) < 3}

\* the contents of the messages at the positions, from position i on, each
\* after the first preceded by one space
RECURSIVE ContentsFrom(_, _, _, _)
ContentsFrom(messages, positions, i, first) ==
  IF i > Len(messages) THEN <<>>
  ELSE IF i \in positions
       THEN (IF first THEN <<>> ELSE <<" ">>) \o messages[i].content
              \o ContentsFrom(messages, positions, i + 1, FALSE)
       ELSE ContentsFrom(messages, positions, i + 1, first)

\* C25: the query is the prompt followed by the contents of the last three
\* recent messages of role "user", in their order, separated by single spaces
\* (the prompt alone when they add no text); other roles neither contribute nor
\* count toward the three.
C25_QueryIsPromptAndLastUserMessages ==
  \A c \in DOMAIN calls :
    LET context == calls[c].promptContext
        recent == ContentsFrom(context.recentMessages,
                               LastUserPositions(context.recentMessages), 1, TRUE)
    IN  Query(calls[c]) =
          IF recent = <<>> THEN context.userPrompt
          ELSE context.userPrompt \o <<" ">> \o recent

\* a scored call with four user messages and an assistant message among the
\* last three messages
C25_Witness ==
  \E c \in DOMAIN calls :
    LET recent == calls[c].promptContext.recentMessages
    IN  /\ Scored(calls[c])
        /\ Len(recent) = 5
        /\ recent[4].role = "assistant"
        /\ Cardinality(LastUserPositions(recent)) = 3
        /\ recent[1].content # recent[2].content
        /\ recent[1].content # <<>> /\ recent[2].content # <<>>
        /\ \E k \in 1..Len(calls[c].candidates) : calls[c].candidates[k].score > 1000

-----------------------------------------------------------------------------
(* Corrupt cache entries *)

\* C26 as stated: a get on an entry whose file does not parse returns a miss
\* and the entry is gone afterwards.
C26_CorruptEntryDeletedOnGet ==
  [][(Len(ops') > 0 /\ LastOp(ops').op = "get") =>
       LET got == LastOp(ops')
           key == GetCacheKey(got.path, got.content)
       IN  (HasEntry(cache, key) /\ ~ParseOk(cache[key].text)) =>
              ~got.ok /\ ~HasEntry(cache', key)]_vars

-----------------------------------------------------------------------------
(* EmbeddingCache.cleanup, running alone on a cache directory of entries of
   several ages *)

\* fs.readdir: the names in the directory, in any order
Listings(dir) ==
  LET n == Cardinality(DOMAIN dir)
  IN  {s \in [1..n -> DOMAIN dir] : \A i, j \in 1..n : s[i] = s[j] => i = j}

CleanupFailed(state, what) ==
  [state EXCEPT !.pc = "done", !.error = what]

\* readdir; its failure (a missing directory, for one) ends the cleanup
CleanupReaddir ==
  /\ cleanup.pc = "readdir"
  /\ \/ \E listing \in Listings(cache) :
          cleanup' = [cleanup EXCEPT !.pc = "loop", !.listed = listing, !.files = listing]
     \/ /\ "readdir" \in fsFails
        /\ cleanup' = CleanupFailed(cleanup, "readdir")
  /\ UNCHANGED <<calls, cache, provider, embedFails, stat, now, writes, ops, fsFails, settings, deepLink>>

\* one iteration of the loop: stat, and unlink when the file is too old; an
\* error of either ends the loop in the catch of cleanup
CleanupEntry ==
  /\ cleanup.pc = "loop"
  /\ cleanup.files # <<>>
  /\ LET key == Head(cleanup.files)
         next == [cleanup EXCEPT !.files = Tail(@)]
     IN  \/ /\ "stat" \in fsFails \/ ~HasEntry(cache, key)
            /\ cleanup' = CleanupFailed(next, "stat")
            /\ UNCHANGED cache
         \/ /\ HasEntry(cache, key)
            /\ IF IsExpired(cache[key].mtimeMs, now, DefaultMaxAge)
               THEN \/ /\ cache' = Unlink(cache, key)
                       /\ cleanup' = next
                    \/ /\ "unlink" \in fsFails
                       /\ cleanup' = CleanupFailed(next, "unlink")
                       /\ UNCHANGED cache
               ELSE /\ cleanup' = next
                    /\ UNCHANGED cache
  /\ UNCHANGED <<calls, provider, embedFails, stat, now, writes, ops, fsFails, settings, deepLink>>

\* the end of the loop
CleanupReturn ==
  /\ cleanup.pc = "loop"
  /\ cleanup.files = <<>>
  /\ cleanup' = [cleanup EXCEPT !.pc = "done"]
  /\ UNCHANGED <<calls, cache, provider, embedFails, stat, now, writes, ops, fsFails, settings, deepLink>>

\* the modification times of the cache files: young, of exactly maxAge, old
CleanupAges ==
  {Clock - 1, Clock - DefaultMaxAge, Clock - DefaultMaxAge - 1}

CleanupCaches ==
  LET files == <<ThemeToggleFile, ChartFile, ParserFile>>
      keyOf(i) == GetCacheKey(files[i].path, files[i].content)
      entry(i, age) ==
        [EntryOf(files[i], WorkspaceStat[files[i].path], "openai") EXCEPT !.mtimeMs = age]
  IN  UNION {{[k \in {keyOf(i) : i \in S} |->
                 entry(CHOOSE i \in S : keyOf(i) = k, ages[CHOOSE i \in S : keyOf(i) = k])] :
                ages \in [S -> CleanupAges]} : S \in SUBSET (1..3)}

InitCleanup ==
  /\ calls = <<>>
  /\ cache \in CleanupCaches
  /\ provider = "openai"
  /\ embedFails = {}
  /\ stat = WorkspaceStat
  /\ writes = {}
  /\ now = Clock
  /\ ops = <<>>
  /\ fsFails \in {{}, {"readdir"}, {"stat"}, {"unlink"}}
  /\ cleanup = [pc |-> "readdir", listed |-> <<>>, files |-> <<>>, error |-> "none"]
  /\ settings = NoSettings
  /\ deepLink = NoDeepLink

NextCleanup ==
  \/ CleanupReaddir
  \/ CleanupEntry
  \/ CleanupReturn

SpecCleanup ==
  InitCleanup /\ [][NextCleanup]_vars

OldEntries(dir) ==
  {k \in DOMAIN dir : now - dir[k].mtimeMs > 7 * 24}

\* a step deletes nothing but old entries and changes no entry
YoungerUntouched ==
  /\ DOMAIN cache' \subseteq DOMAIN cache
  /\ \A k \in DOMAIN cache \ OldEntries(cache) : k \in DOMAIN cache' /\ cache'[k] = cache[k]

\* the entry whose stat or unlink failed
FailedOn ==
  IF cleanup.error \in {"stat", "unlink"}
  THEN {cleanup.listed[Len(cleanup.listed) - Len(cleanup.files)]}
  ELSE {}

\* C27 as stated: when the cleanup has finished no entry older than maxAge is
\* left, but for an entry whose own stat or unlink failed, and no younger
\* entry was touched.
C27_CleanupDeletesAllOldEntries ==
  /\ []((cleanup.pc = "done" /\ cleanup.error # "readdir") => OldEntries(cache) \subseteq FailedOn)
  /\ [][YoungerUntouched]_vars

\* C27, amended: when the cleanup has finished without an error no entry older
\* than maxAge is left; no step touches a younger entry; an error on one entry
\* ends the cleanup, and the entries it had not reached stay as they are.
C27_CleanupDeletesOldUnlessError ==
  /\ []((cleanup.pc = "done" /\ cleanup.error = "none") => OldEntries(cache) = {})
  /\ [](cleanup.error # "none" => cleanup.pc = "done")
  /\ [][YoungerUntouched]_vars
  /\ [][cleanup.pc = "done" => cache' = cache]_vars

C27_Witness ==
  /\ cleanup.pc = "done"
  /\ cleanup.error = "none"
  /\ Len(cleanup.listed) = 3
  /\ Cardinality(DOMAIN cache) = 2
  /\ \E k \in DOMAIN cache : now - cache[k].mtimeMs = 7 * 24

-----------------------------------------------------------------------------
(* The stages of a candidate, read from its reasons *)

BaseReasons ==
  {"embedding similarity", "tf-idf score"}

\* the reasons addHeuristicScores pushes for a candidate
HeuristicReasons(c, query) ==
  AddHeuristicScores([c EXCEPT !.score = 0, !.reasons = <<>>], query, stat, now).reasons

\* the reasons the keyword loop of scoreCandidates pushes for a candidate
KeywordReasons(c, keywords) ==
  KeywordAdjust([c EXCEPT !.score = 0, !.reasons = <<>>], keywords).reasons

\* the candidate was base scored once, then heuristics scored once, then
\* keyword adjusted once
PassedEveryStage(c, query) ==
  /\ c.reasons # <<>>
  /\ Head(c.reasons) \in BaseReasons
  /\ Tail(c.reasons) = HeuristicReasons(c, query) \o KeywordReasons(c, ExtractKeywords(query))

IsPrefix(s, t) ==
  /\ Len(s) <= Len(t)
  /\ SubSeq(t, 1, Len(s)) = s

PathsOf(candidates) ==
  {candidates[i].path : i \in 1..Len(candidates)}

WithPath(candidates, p) ==
  candidates[CHOOSE i \in 1..Len(candidates) : candidates[i].path = p]

\* in one step the reasons of every candidate grow at the end, and a score
\* that changes comes with a new reason
ReasonsFollowScore ==
  \A c \in DOMAIN calls \cap DOMAIN calls' :
    \A p \in PathsOf(calls[c].candidates) :
      /\ p \in PathsOf(calls'[c].candidates)
      /\ LET before == WithPath(calls[c].candidates, p)
             after == WithPath(calls'[c].candidates, p)
         IN  /\ IsPrefix(before.reasons, after.reasons)
             /\ after.score # before.score => Len(after.reasons) > Len(before.reasons)

\* C28: every candidate of a call is base scored, heuristics scored and keyword
\* adjusted, once each and in that order, before the selection, and ends
\* selected or filtered; its reasons only grow, and a step that changes its
\* score appends a reason.
C28_CandidatesPassEveryStage ==
  /\ [](\A c \in DOMAIN calls :
          calls[c].pc \in {"select", "done"} /\ calls[c].usedScorer # "none" =>
            \A i \in 1..Len(calls[c].candidates) :
              PassedEveryStage(calls[c].candidates[i], Query(calls[c])))
  /\ [][ReasonsFollowScore]_vars

-----------------------------------------------------------------------------
(* Two engines, one after the other, over the same cache directory: the second
   is constructed after the provider settings have changed *)

InitProvider ==
  /\ \E files \in {<<ThemeToggleFile>>, <<ThemeToggleFile, ChartFile>>, <<ChartFile, ParserFile>>},
        prompt \in Prompts, mode \in {"conservative", "balanced"} :
       calls = << NewCall([mode |-> mode, files |-> files, autoIncludes |-> {},
                           promptContext |-> prompt, optBudget |-> 9,
                           maxTokens |-> 0]) >>
  /\ provider = "openai"
  /\ embedFails = {}
  /\ stat = WorkspaceStat
  /\ cache \in {EmptyCache, StaleCache}
  /\ writes = {}
  /\ now = Clock
  /\ ops = <<>>
  /\ fsFails = {}
  /\ cleanup = CleanupDone
  /\ settings = NoSettings
  /\ deepLink = NoDeepLink

\* a new engine for the settings as they are now, and the call of the first
\* engine made again on it
Reconfigure ==
  /\ Len(calls) = 1
  /\ Done(calls[1])
  /\ provider' \in {"openai", "google", "vertex"}
  /\ calls' = Append(calls,
       NewCall([mode |-> calls[1].mode, files |-> calls[1].files,
                autoIncludes |-> calls[1].autoIncludes,
                promptContext |-> calls[1].promptContext,
                optBudget |-> calls[1].optBudget, maxTokens |-> calls[1].maxTokens]))
  /\ UNCHANGED <<cache, embedFails, stat, now, writes, ops, fsFails, cleanup, settings, deepLink>>

NextProvider ==
  \/ \E c \in DOMAIN calls : SelectFiles(c)
  \/ \E c \in DOMAIN calls : ScoreCandidates(c)
  \/ \E c \in DOMAIN calls : EmbedQuery(c)
  \/ \E c \in DOMAIN calls : StatCandidate(c)
  \/ \E c \in DOMAIN calls : CacheGet(c)
  \/ \E c \in DOMAIN calls : CacheUnlink(c)
  \/ \E c \in DOMAIN calls : EmbedCandidate(c)
  \/ \E c \in DOMAIN calls : StatForSet(c)
  \/ \E c \in DOMAIN calls : CacheSetBegin(c)
  \/ \E c \in DOMAIN calls : CacheSetEnd(c)
  \/ \E c \in DOMAIN calls : AdjustCandidates(c)
  \/ \E c \in DOMAIN calls : ReturnResult(c)
  \/ Reconfigure

SpecProvider ==
  InitProvider /\ [][NextProvider]_vars

\* C29: in a running call every vector served from the cache is the vector the
\* configured provider gives for that content, as the query vector is the
\* vector it gives for the query.
C29_CachedVectorsAreOfTheProvider ==
  \A c \in DOMAIN calls :
    ~Done(calls[c]) =>
      /\ calls[c].queryEmbedding \in {<<>>, EmbedVector(provider, Query(calls[c]))}
      /\ \A h \in calls[c].hits : h.embedding = EmbedVector(provider, h.content)

-----------------------------------------------------------------------------
(* main.ts: the deep links of the desktop shell *)

\* the first index of s that holds ch, 0 when there is none
IndexOf(s, ch) ==
  IF \E i \in 1..Len(s) : s[i] = ch
  THEN CHOOSE i \in 1..Len(s) : s[i] = ch /\ \A j \in 1..(i - 1) : s[j] # ch
  ELSE 0

From(s, i) ==
  SubSeq(s, i, Len(s))

Before(s, i) ==
  SubSeq(s, 1, i - 1)

\* the schemes for which the URL parser wants a host and gives the path "/"
SpecialSchemes ==
  {<<"h","t","t","p">>, <<"h","t","t","p","s">>, <<"w","s">>, <<"w","s","s">>, <<"f","t","p">>, <<"f","i","l","e">>}

SchemeLetters ==
  LowerLetters \cup DOMAIN UpperToLower

\* new URL(url), for URLs without port, credentials, fragment and escapes:
\* protocol, hostname, pathname and the text after "?"; ok is FALSE where the
\* constructor throws
ParseUrl(url) ==
  LET colon == IndexOf(url, ":")
      scheme == ToLowerCase(Before(url, colon))
      rest == From(url, colon + 1)
      mark == IndexOf(rest, "?")
      beforeSearch == IF mark = 0 THEN rest ELSE Before(rest, mark)
      search == IF mark = 0 THEN <<>> ELSE From(rest, mark + 1)
      hasAuthority ==
        Len(beforeSearch) >= 2 /\ beforeSearch[1] = "/" /\ beforeSearch[2] = "/"
      afterSlashes == From(beforeSearch, 3)
      slash == IndexOf(afterSlashes, "/")
      host == IF slash = 0 THEN afterSlashes ELSE Before(afterSlashes, slash)
      path == IF slash = 0 THEN <<>> ELSE From(afterSlashes, slash)
      special == scheme \in SpecialSchemes
  IN  IF \/ colon <= 1
         \/ url[1] \notin SchemeLetters
         \/ \E i \in 2..(colon - 1) : url[i] \notin SchemeLetters \cup Digits \cup {"+", "-", "."}
         \/ special /\ (~hasAuthority \/ host = <<>>)
      THEN [ok |-> FALSE]
      ELSE [ok |-> TRUE,
            protocol |-> scheme \o <<":">>,
            hostname |-> IF ~hasAuthority THEN <<>>
                         ELSE IF special THEN ToLowerCase(host) ELSE host,
            pathname |-> IF ~hasAuthority THEN beforeSearch
                         ELSE IF special /\ path = <<>> THEN <<"/">> ELSE path,
            search |-> search]

\* s split at every ch
RECURSIVE SplitOn(_, _)
SplitOn(s, ch) ==
  LET i == IndexOf(s, ch)
  IN  IF i = 0 THEN <<s>> ELSE <<Before(s, i)>> \o SplitOn(From(s, i + 1), ch)

\* the value searchParams.get gives for a name that is absent
Null == <<"null">>

\* searchParams.get(name): the value of the first pair of that name
SearchParam(search, name) ==
  LET pairs == IF search = <<>> THEN <<>> ELSE SplitOn(search, "&")
      nameOf(pair) == IF IndexOf(pair, "=") = 0 THEN pair ELSE Before(pair, IndexOf(pair, "="))
      valueOf(pair) == IF IndexOf(pair, "=") = 0 THEN <<>> ELSE From(pair, IndexOf(pair, "=") + 1)
  IN  IF \E i \in 1..Len(pairs) : nameOf(pairs[i]) = name
      THEN valueOf(pairs[CHOOSE i \in 1..Len(pairs) :
                           /\ nameOf(pairs[i]) = name
                           /\ \A j \in 1..(i - 1) : nameOf(pairs[j]) # name])
      ELSE Null

\* !value, for a string or null
IsFalsy(value) ==
  value = Null \/ value = <<>>

DigitValue ==
  [ch \in Digits |-> CHOOSE n \in 0..9 : ToString(n) = ch]

NaN == -1

\* Number(value) for null, the empty string, digits, and text that is no number
RECURSIVE Decimal(_)
Decimal(s) ==
  IF s = <<>> THEN 0 ELSE Decimal(Before(s, Len(s))) * 10 + DigitValue[s[Len(s)]]

ToNumber(value) ==
  IF IsFalsy(value) THEN 0
  ELSE IF \A i \in 1..Len(value) : value[i] \in Digits THEN Decimal(value)
  ELSE NaN

ShowErrorBox(link, title) ==
  [link EXCEPT !.errorBoxes = Append(@, title)]

Send(link, type) ==
  [link EXCEPT !.sent = Append(@, type)]

\* the three expected parameters of the OAuth returns, or NoValue
OAuthReturn(parsed) ==
  LET token == SearchParam(parsed.search, <<"t","o","k","e","n">>)
      refreshToken == SearchParam(parsed.search, <<"r","e","f","r","e","s","h","T","o","k","e","n">>)
      expiresIn == ToNumber(SearchParam(parsed.search, <<"e","x","p","i","r","e","s","I","n">>))
  IN  IF IsFalsy(token) \/ IsFalsy(refreshToken) \/ expiresIn \in {0, NaN} THEN NoValue
      ELSE [kind |-> "oauth", token |-> token, refreshToken |-> refreshToken,
            expiresIn |-> expiresIn]

\* the URLs the operating system hands to the app: every combination of these
\* schemes, hosts, paths and parameters, and two strings that are no URL
UrlSchemes ==
  {<<"t","e","r","n","a","r","y">>, <<"h","t","t","p","s">>, <<"m","y","a","p","p">>}

UrlHosts ==
  {<<"l","i","n","k">>, <<"n","e","o","n","-","o","a","u","t","h","-","r","e","t","u","r","n">>, <<"s","u","p","a","b","a","s","e","-","o","a","u","t","h","-","r","e","t","u","r","n">>, <<"t","e","r","n","a","r","y","-","p","r","o","-","r","e","t","u","r","n">>,
   <<"s","e","t","t","i","n","g","s">>}

UrlPaths ==
  {<<>>, <<"/","c","a","l","l","b","a","c","k">>}

UrlSearches ==
  {<<>>, <<"s","t","a","t","u","s","=","o","k","&","t","o","k","e","n","=","t","1","&","d","e","v","i","c","e","_","i","d","=","d","1">>, <<"s","t","a","t","u","s","=","o","k","&","t","o","k","e","n","=","t","1">>,
   <<"s","t","a","t","u","s","=","e","r","r","o","r","&","t","o","k","e","n","=","t","1">>, <<"t","o","k","e","n","=","t","1","&","r","e","f","r","e","s","h","T","o","k","e","n","=","r","1","&","e","x","p","i","r","e","s","I","n","=","3","6","0","0">>,
   <<"t","o","k","e","n","=","t","1","&","r","e","f","r","e","s","h","T","o","k","e","n","=","r","1">>, <<"t","o","k","e","n","=","t","1","&","r","e","f","r","e","s","h","T","o","k","e","n","=","r","1","&","e","x","p","i","r","e","s","I","n","=","s","o","o","n">>,
   <<"k","e","y","=","k","1">>, <<"k","e","y","=">>}

MakeUrl(scheme, host, path, search) ==
  scheme \o <<":","/","/">> \o host \o path \o (IF search = <<>> THEN <<>> ELSE <<"?">> \o search)

UrlsOf(schemes) ==
  {MakeUrl(scheme, host, path, search) :
     scheme \in schemes, host \in UrlHosts, path \in UrlPaths, search \in UrlSearches}

DeepLinkUrls ==
  UrlsOf(UrlSchemes) \cup {<<"n","o","t"," ","a"," ","u","r","l">>, <<":","/","/","l","i","n","k","/","c","a","l","l","b","a","c","k">>}

\* handleDeepLinkReturn, up to its return; what it leaves running is in linking
HandleDeepLinkReturn ==
  /\ deepLink.pc = "idle"
  /\ \E url \in DeepLinkUrls :
       LET link == [deepLink EXCEPT !.url = url, !.pc = "handled"]
           parsed == ParseUrl(url)
       IN  IF ~parsed.ok
           THEN /\ deepLink' = link
                /\ UNCHANGED settings
           ELSE IF parsed.hostname = <<"l","i","n","k">> /\ parsed.pathname = <<"/","c","a","l","l","b","a","c","k">>
           THEN LET status == SearchParam(parsed.search, <<"s","t","a","t","u","s">>)
                    token == SearchParam(parsed.search, <<"t","o","k","e","n">>)
                    deviceId == SearchParam(parsed.search, <<"d","e","v","i","c","e","_","i","d">>)
                IN  IF status # <<"o","k">> \/ IsFalsy(token)
                    THEN /\ deepLink' = ShowErrorBox(link, "Invalid URL")
                         /\ UNCHANGED settings
                    ELSE LET auth == [kind |-> "appAuth", token |-> token,
                                      deviceId |-> IF IsFalsy(deviceId) THEN Null ELSE deviceId,
                                      refreshed |-> FALSE]
                         IN  /\ settings' = [settings EXCEPT !.appAuth = auth]
                             /\ deepLink' = [link EXCEPT !.pc = "linking", !.linking = auth]
           ELSE IF parsed.protocol # <<"t","e","r","n","a","r","y",":">>
           THEN /\ deepLink' = ShowErrorBox(link, "Invalid Protocol")
                /\ UNCHANGED settings
           ELSE IF parsed.hostname \in {<<"n","e","o","n","-","o","a","u","t","h","-","r","e","t","u","r","n">>, <<"s","u","p","a","b","a","s","e","-","o","a","u","t","h","-","r","e","t","u","r","n">>}
           THEN IF OAuthReturn(parsed) = NoValue
                THEN /\ deepLink' = ShowErrorBox(link, "Invalid URL")
                     /\ UNCHANGED settings
                ELSE /\ settings' =
                          IF parsed.hostname = <<"n","e","o","n","-","o","a","u","t","h","-","r","e","t","u","r","n">>
                          THEN [settings EXCEPT !.neon = OAuthReturn(parsed)]
                          ELSE [settings EXCEPT !.supabase = OAuthReturn(parsed)]
                     /\ deepLink' = Send(link, parsed.hostname)
           ELSE IF parsed.hostname = <<"t","e","r","n","a","r","y","-","p","r","o","-","r","e","t","u","r","n">>
           THEN IF IsFalsy(SearchParam(parsed.search, <<"k","e","y">>))
                THEN /\ deepLink' = ShowErrorBox(link, "Invalid URL")
                     /\ UNCHANGED settings
                ELSE /\ settings' =
                          [settings EXCEPT !.ternaryPro =
                             [kind |-> "key", apiKey |-> SearchParam(parsed.search, <<"k","e","y">>)]]
                     /\ deepLink' = Send(link, parsed.hostname)
           ELSE /\ deepLink' = ShowErrorBox(link, "Invalid deep link URL")
                /\ UNCHANGED settings
  /\ UNCHANGED <<calls, cache, provider, embedFails, stat, now, writes, ops, fsFails, cleanup>>

\* the rest of handleDeviceLinkCallback: GET /api/app/me answers, or fails
FetchAppAuth ==
  /\ deepLink.pc = "linking"
  /\ \/ /\ settings' = [settings EXCEPT !.appAuth = [deepLink.linking EXCEPT !.refreshed = TRUE]]
        /\ deepLink' = [Send(deepLink, <<"l","i","n","k","/","c","a","l","l","b","a","c","k">>) EXCEPT !.pc = "handled"]
     \/ /\ deepLink' = [ShowErrorBox(deepLink, "Link Failed") EXCEPT !.pc = "handled"]
        /\ UNCHANGED settings
  /\ UNCHANGED <<calls, cache, provider, embedFails, stat, now, writes, ops, fsFails, cleanup>>

InitDeepLink ==
  /\ calls = <<>>
  /\ cache = EmptyCache
  /\ provider = "none"
  /\ embedFails = {}
  /\ stat = WorkspaceStat
  /\ writes = {}
  /\ now = Clock
  /\ ops = <<>>
  /\ fsFails = {}
  /\ cleanup = CleanupDone
  /\ settings = NoSettings
  /\ deepLink = NoDeepLink

NextDeepLink ==
  \/ HandleDeepLinkReturn
  \/ FetchAppAuth

SpecDeepLink ==
  InitDeepLink /\ [][NextDeepLink]_vars

\* C30: the stored settings change only for a URL of the scheme ternary; once a
\* URL of another scheme has been handled the settings are as they were and an
\* error box has been shown.
C30_OnlyTernaryUrlsChangeSettings ==
  /\ settings # NoSettings => deepLink.url \in UrlsOf({<<"t","e","r","n","a","r","y">>})
  /\ (deepLink.pc # "idle" /\ deepLink.url \in UrlsOf(UrlSchemes \ {<<"t","e","r","n","a","r","y">>})) =>
        /\ settings = NoSettings
        /\ deepLink.errorBoxes # <<>>
====
